---- MODULE Spec2Model ----
(***************************************************************************)
(* SensiByte: antibiogram ingestion (CRUD/views.py), duplicate rejection,  *)
(* intrinsic and acquired resistance, orphan cleanup, and EUCAST           *)
(* reinterpretation (Base/models.py, Tendencias/views.py).                 *)
(*                                                                         *)
(* Numbers that may be null in the program (MIC, halo, age, date,          *)
(* breakpoints) are sequences of length 0 or 1: << >> is None and <<x>> is *)
(* the value x.  MIC values are counted in thousandths of mg/L, the        *)
(* resolution of the DecimalField that stores them, and ages in tenths of  *)
(* a year (parse_age returns a float).  Text cells that may be absent use  *)
(* the string "NULL".                                                      *)
(***************************************************************************)
EXTENDS Integers, Sequences, FiniteSets, TLC

None == << >>
Some(x) == << x >>
Val(o) == o[1]
NULL == "NULL"

(***************************************************************************)
(* Python dict with insertion order: a sequence of <<key, value>> pairs.   *)
(***************************************************************************)
DictKeys(d) == {d[i][1] : i \in DOMAIN d}
DictHas(d, k) == k \in DictKeys(d)
DictVal(d, k) == d[CHOOSE i \in DOMAIN d : d[i][1] = k][2]
DictSet(d, k, v) ==
    IF DictHas(d, k)
    THEN [i \in DOMAIN d |-> IF d[i][1] = k THEN <<k, v>> ELSE d[i]]
    ELSE Append(d, <<k, v>>)
DictFun(d) == [k \in DictKeys(d) |-> DictVal(d, k)]

(***************************************************************************)
(* Catalogue: tenants, antibiotics, organisms, EUCAST versions, rules.     *)
(***************************************************************************)
Hospitales == {"h1", "h2"}

\* "B" is a base antibiotic, "V" its variant (Antibiotico.parent)
Antibioticos == {"B", "V"}
Parent == [a \in Antibioticos |-> IF a = "V" THEN "B" ELSE NULL]
OrdenPk == <<"B", "V">>
Variantes(a) == {v \in Antibioticos : Parent[v] = a}

Microorganismos == {"eco", "kpn"}
\* the organisms of the global catalogue; the tenants work with the first two
Especies == Microorganismos \cup {"pmi", "sau"}
Taxon ==
    [m \in Especies |->
        IF m = "eco"
        THEN [nombre |-> "escherichia coli", genero |-> "escherichia",
              familia |-> "enterobacteriaceae", grupo |-> "enterobacterales"]
        ELSE IF m = "kpn"
        THEN [nombre |-> "klebsiella pneumoniae", genero |-> "klebsiella",
              familia |-> "enterobacteriaceae", grupo |-> "enterobacterales"]
        ELSE IF m = "pmi"
        THEN [nombre |-> "proteus mirabilis", genero |-> "proteus",
              familia |-> "morganellaceae", grupo |-> "enterobacterales"]
        ELSE [nombre |-> "staphylococcus aureus", genero |-> "staphylococcus",
              familia |-> "staphylococcaceae", grupo |-> "staphylococcus"]]
\* Microorganismo.resistencia_intrinseca (the M2M set, bases only)
ResistenciaIntrinseca == [m \in Microorganismos |-> IF m = "kpn" THEN {"B"} ELSE {}]

\* PerfilAntibiogramaHospital.antibioticos, in the order the query returns them
Perfil == [h \in Hospitales |-> IF h = "h1" THEN <<"B", "V">> ELSE <<"V", "B">>]

\* MecanismoResistenciaHospital.resistencia_adquirida and
\* SubtipoMecanismoResistenciaHospital.resistencia_adquirida
Mecanismos == {"blee"}
ResistenciaAdquirida == [k \in Mecanismos |-> {"B"}]
Subtipos == {"ctxm"}
ResistenciaAdquiridaSubtipo == [k \in Subtipos |-> {"V"}]

Versiones == {"v1", "v2"}
VersionInicio == [v \in Versiones |-> IF v = "v1" THEN 1 ELSE 2]
VersionFin == [v \in Versiones |-> IF v = "v1" THEN Some(1) ELSE None]

\* EucastVersion.get_version_from_date: latest version whose window holds fecha
VersionesVigentes(fecha) ==
    {v \in Versiones : /\ VersionInicio[v] <= fecha
                       /\ (VersionFin[v] = None \/ Val(VersionFin[v]) >= fecha)}
get_version_from_date(fecha) ==
    IF VersionesVigentes(fecha) = {} THEN NULL
    ELSE CHOOSE v \in VersionesVigentes(fecha) :
            \A w \in VersionesVigentes(fecha) : VersionInicio[w] <= VersionInicio[v]

(***************************************************************************)
(* Rule engine (Base/global_models.py).                                    *)
(***************************************************************************)
\* CondicionTaxonReglaInterpretacion.apply_to
CondicionAplica(c, m) ==
    IF m \in c.excluye THEN FALSE
    ELSE IF c.incluye # {} /\ m \notin c.incluye THEN FALSE
    ELSE IF c.scope = "personalizado" THEN m \in c.incluye
    ELSE IF \E inc \in c.incluye :
               \/ c.scope = "especie" /\ Taxon[inc].nombre = Taxon[m].nombre
               \/ c.scope = "genero" /\ Taxon[inc].genero # ""
                                     /\ Taxon[inc].genero = Taxon[m].genero
               \/ c.scope = "familia" /\ Taxon[inc].familia # ""
                                      /\ Taxon[inc].familia = Taxon[m].familia
               \/ c.scope = "grupo" /\ Taxon[inc].grupo = Taxon[m].grupo
         THEN TRUE
    ELSE ~ \E exc \in c.excluye :
               \/ Taxon[exc].nombre = Taxon[m].nombre
               \/ Taxon[exc].genero # "" /\ Taxon[exc].genero = Taxon[m].genero
               \/ Taxon[exc].familia # "" /\ Taxon[exc].familia = Taxon[m].familia
               \/ Taxon[exc].grupo = Taxon[m].grupo

\* the loop over condiciones_taxonomicas of ReglaInterpretacion.apply_to:
\* "si" = some condition accepted, "no" = none did, "excluido" = early return
RECURSIVE CondicionesLoop(_, _, _)
CondicionesLoop(conds, i, m) ==
    IF i > Len(conds) THEN "no"
    ELSE IF m \in conds[i].excluye THEN "excluido"
    ELSE IF conds[i].incluye # {}
         THEN IF m \in conds[i].incluye THEN "si"
              ELSE CondicionesLoop(conds, i + 1, m)
    ELSE IF CondicionAplica(conds[i], m) THEN "si"
    ELSE CondicionesLoop(conds, i + 1, m)

\* ReglaInterpretacion.apply_to
ReglaAplica(r, antibiotico, m, grupo, edad, sexo, tipo_muestra, version) ==
    /\ ~ (version # NULL /\ r.version_eucast # version)
    /\ r.antibiotico = antibiotico
    /\ ~ (r.grupo_eucast # NULL /\ grupo # NULL /\ r.grupo_eucast # grupo)
    /\ (Len(r.condiciones) > 0 => CondicionesLoop(r.condiciones, 1, m) = "si")
    /\ ~ (r.edad_min # None /\ (edad = None \/ Val(edad) < Val(r.edad_min)))
    /\ ~ (r.edad_max # None /\ (edad = None \/ Val(edad) > Val(r.edad_max)))
    /\ ~ (r.sexo # NULL /\ sexo # NULL /\ r.sexo # sexo)
    /\ (r.categorias_muestra # {} =>
            /\ tipo_muestra # NULL
            /\ tipo_muestra \in r.categorias_muestra)

\* interpret without its closing `return "ND"` lines: a value that no
\* comparison settles falls off the end of the function
Interpret_sin_nd(r, cmi, halo) ==
    IF cmi = None /\ halo = None THEN "ND"
    ELSE IF cmi # None
    THEN IF r.s_cmi_max # None /\ Val(cmi) <= Val(r.s_cmi_max) THEN "S"
         ELSE IF r.r_cmi_min # None /\ Val(cmi) > 2 * Val(r.r_cmi_min) THEN "R"
         ELSE IF /\ r.s_cmi_max # None /\ r.r_cmi_min # None
                 /\ Val(r.s_cmi_max) < Val(cmi)
                 /\ Val(cmi) < 2 * Val(r.r_cmi_min) THEN "I"
         ELSE NULL
    ELSE IF r.s_halo_min # None /\ Val(halo) >= Val(r.s_halo_min) THEN "S"
         ELSE IF r.r_halo_max # None /\ Val(halo) < Val(r.r_halo_max) THEN "R"
         ELSE IF /\ r.s_halo_min # None /\ r.r_halo_max # None
                 /\ Val(r.r_halo_max) <= Val(halo)
                 /\ Val(halo) < Val(r.s_halo_min) THEN "I"
         ELSE NULL

\* ReglaInterpretacion.interpret
Interpret(r, cmi, halo) ==
    IF cmi = None /\ halo = None THEN "ND"
    ELSE IF cmi # None
    THEN IF r.s_cmi_max # None /\ Val(cmi) <= Val(r.s_cmi_max) THEN "S"
         ELSE IF r.r_cmi_min # None /\ Val(cmi) > 2 * Val(r.r_cmi_min) THEN "R"
         ELSE IF /\ r.s_cmi_max # None /\ r.r_cmi_min # None
                 /\ Val(r.s_cmi_max) < Val(cmi)
                 /\ Val(cmi) < 2 * Val(r.r_cmi_min) THEN "I"
         ELSE "ND"
    ELSE IF r.s_halo_min # None /\ Val(halo) >= Val(r.s_halo_min) THEN "S"
         ELSE IF r.r_halo_max # None /\ Val(halo) < Val(r.r_halo_max) THEN "R"
         ELSE IF /\ r.s_halo_min # None /\ r.r_halo_max # None
                 /\ Val(r.r_halo_max) <= Val(halo)
                 /\ Val(halo) < Val(r.s_halo_min) THEN "I"
         ELSE "ND"

\* the ReglaInterpretacion rows of the catalogue, in primary-key order
Regla(ab, ver, s, r) ==
    [antibiotico |-> ab, version_eucast |-> ver, grupo_eucast |-> "enterobacterales",
     condiciones |-> << >>, edad_min |-> None, edad_max |-> None, sexo |-> NULL,
     categorias_muestra |-> {}, s_cmi_max |-> s, r_cmi_min |-> r,
     s_halo_min |-> None, r_halo_max |-> None]
Reglas == << Regla("V", "v1", Some(8000), Some(8000)),
             Regla("V", "v2", Some(1000), Some(1000)),
             Regla("B", "v2", Some(1000), Some(4000)) >>

(***************************************************************************)
(* Ingestion (CRUD/views.py, CRUD/utils.py).                               *)
(*                                                                         *)
(* A row (fila) carries the cells of one spreadsheet line: nh is the       *)
(* patient number or NULL, fecha and edad are the parsed date and age or   *)
(* None, sexo/ambito/servicio/muestra are the demographic cell texts,      *)
(* interp/cmi/halo are the cells found for each antibiotic of the profile  *)
(* and mec the mechanisms that detect_arm reports for the row.             *)
(***************************************************************************)
VARIABLES registros, aislados, resultados, reinterpretaciones, arm,
          lote, inicio,
          fase, hospital, microorganismo, total, pos, contadores,
          registros_cache, timestamp_carga,
          procesadas, anterior, uniforme, log, log_previo, repite

\* what the analyses hold: the last aggregation computed and the strata of
\* the last stratified report, the last taxon condition evaluated, the last
\* rule tried on an organism, the last value read against breakpoints, the
\* last demographic cell resolved and the last row searched for mechanisms
VARIABLES agregado, estratos, condicion, evaluacion, lectura, resolucion,
          deteccion

\* the call of a value parser and the trend analysis under way
VARIABLES analizado, tendencia
calculo == <<analizado, tendencia>>
\* a Python float: finite (in thousandths), inf or nan; "texto" is a text
\* that float() rejects
Num(milli) == [clase |-> "finito", milli |-> milli]
Inf == [clase |-> "inf", milli |-> 0]
NaN == [clase |-> "nan", milli |-> 0]
NoNumero == [clase |-> "texto", milli |-> 0]
\* how a call of a parser ends: an exception, None or a float
Lanza == [estado |-> "raise", num |-> NoNumero]
Nulo == [estado |-> "null", num |-> NoNumero]
Valor(n) == [estado |-> "valor", num |-> n]
AnalizadoInicial ==
    [cmi |-> << >>, halo |-> << >>, edad |-> << >>, parser |-> "ninguno",
     salida |-> [cmi |-> Nulo, halo |-> Nulo, edad |-> Nulo], hecho |-> FALSE]
\* the result of one model: an error marker, or metrics over folds
ErrorModelo == [error |-> TRUE, num_folds_validos |-> 0, num_folds_total |-> 0]
SinModelo == [error |-> FALSE, num_folds_validos |-> -1, num_folds_total |-> -1]
TendenciaInicial ==
    [n |-> 0, falla_lineal |-> {}, falla_gam |-> {}, falla_gam_final |-> {},
     ajuste_lineal_falla |-> FALSE, ajuste_gam_falla |-> FALSE,
     operacion |-> "ninguna", error |-> FALSE, lineal |-> SinModelo,
     gam |-> SinModelo, hecho |-> FALSE]
CalculoEnReposo == analizado = AnalizadoInicial /\ tendencia = TendenciaInicial

analisis ==
    <<agregado, estratos, condicion, evaluacion, lectura, resolucion, deteccion,
      calculo>>
AgregadoInicial == [vista |-> "ninguna"]
EstratosInicial ==
    [campo |-> "ninguno", conteos |-> << >>, ignorar_minimo |-> << >>,
     informados |-> {}, hecho |-> FALSE]
CondicionInicial ==
    [scope |-> "grupo", incluye |-> {}, excluye |-> {}, m |-> "eco",
     aplica |-> FALSE, hecho |-> FALSE]
EvaluacionInicial ==
    [condiciones |-> << >>, m |-> "eco", aplica |-> FALSE, hecho |-> FALSE]
LecturaInicial ==
    [s_cmi_max |-> None, r_cmi_min |-> None, s_halo_min |-> None,
     r_halo_max |-> None, cmi |-> None, halo |-> None, salida |-> NULL,
     hecho |-> FALSE]
ResolucionInicial ==
    [entidades |-> << >>, celda |-> << >>, salida |-> None, hecho |-> FALSE]
DeteccionInicial ==
    [fila |-> << >>, catalogo_mecanismos |-> {}, catalogo_subtipos |-> {},
     mecanismos |-> {}, subtipos |-> {}, hecho |-> FALSE]
\* the analyses at rest
Reposo(a, e, c, v, l, r, d) ==
    /\ a => agregado = AgregadoInicial
    /\ e => estratos = EstratosInicial
    /\ c => condicion = CondicionInicial
    /\ v => evaluacion = EvaluacionInicial
    /\ l => lectura = LecturaInicial
    /\ r => resolucion = ResolucionInicial
    /\ d => deteccion = DeteccionInicial
InitAnalisis == Reposo(TRUE, TRUE, TRUE, TRUE, TRUE, TRUE, TRUE) /\ CalculoEnReposo

varsCarga == <<registros, aislados, resultados, fase, hospital, microorganismo,
               total, pos, contadores, registros_cache, timestamp_carga,
               procesadas, anterior, uniforme, log, log_previo, repite>>
\* what a load leaves alone
ajenasCarga == <<reinterpretaciones, arm, lote, inicio, analisis>>
vars == <<varsCarga, ajenasCarga>>

\* rows of one file, loads of a run, rows over all the loads of a run
MaxFilas == 2
MaxCargas == 2
MaxFilasTotal == 2
\* reinterpretation batches of a run
MaxLotes == 2

\* ResultadoAntibiotico.cmi = DecimalField(max_digits=6, decimal_places=3)
CmiMaxMilli == 999999

\* code_nh / gen_automatic_nh_hash: distinct inputs give distinct hashes
code_nh(nh) == <<"sha", nh>>
gen_automatic_nh_hash(ts, contador, m) == <<"auto", ts, contador, m>>

\* build_alias_cache for the demographic entities of a tenant
Sexos == {"m"}
Ambitos == {"a"}
Servicios == {"s"}
TiposMuestra == {"t"}
build_alias_cache(h, bases) == [k \in bases |-> [hospital |-> h, base |-> k]]
get_from_cache_primero(cache, value) ==
    IF value = "" THEN None
    ELSE IF value \in DOMAIN cache THEN Some(cache[value])
    ELSE Some(cache[CHOOSE k \in DOMAIN cache : TRUE])
get_from_cache(cache, value) ==
    IF value = "" THEN None
    ELSE IF value \in DOMAIN cache THEN Some(cache[value]) ELSE None

\* CargarAntibiogramaView._get_demographic_data
GetDemographicData(fila, h, ts, contador, m) ==
    LET nh_hash == IF fila.nh # NULL /\ fila.nh # ""
                   THEN code_nh(fila.nh)
                   ELSE gen_automatic_nh_hash(ts, contador, m)
        sexo_obj == get_from_cache(build_alias_cache(h, Sexos), fila.sexo)
        ambito_obj == get_from_cache(build_alias_cache(h, Ambitos), fila.ambito)
        servicio_obj == get_from_cache(build_alias_cache(h, Servicios), fila.servicio)
        muestra_obj == get_from_cache(build_alias_cache(h, TiposMuestra), fila.muestra)
    IN  IF fila.fecha = None
        THEN [estado |-> "excepcion"]   \* filter(fecha_inicio__lte=None) raises
        ELSE IF None \in {sexo_obj, ambito_obj, servicio_obj, muestra_obj}
        THEN [estado |-> "none"]
        ELSE [estado |-> "ok", nh_hash |-> nh_hash, edad |-> fila.edad,
              fecha |-> Val(fila.fecha),
              version_eucast |-> get_version_from_date(Val(fila.fecha)),
              sexo |-> Val(sexo_obj), ambito |-> Val(ambito_obj),
              servicio |-> Val(servicio_obj), muestra |-> Val(muestra_obj)]

\* Registro.edad is a PositiveSmallIntegerField: int(value) on save and on
\* the exact lookup
IntEdad(e) == IF e = None THEN None ELSE Some((Val(e) \div 10) * 10)

\* the key of registros_cache in get_or_create_registro
RegistroKey(d) ==
    <<d.nh_hash, d.fecha, d.edad, d.sexo.base, d.ambito.base, d.servicio.base,
      d.muestra.base>>

\* query_registro of get_or_create_registro
RegistrosCoincidentes(regs, d, h) ==
    {r \in regs : /\ r.nh_hash = d.nh_hash /\ r.fecha = d.fecha
                  /\ r.sexo = d.sexo /\ r.ambito = d.ambito
                  /\ r.servicio = d.servicio /\ r.tipo_muestra = d.muestra
                  /\ r.hospital = h /\ r.edad = IntEdad(d.edad)}

\* primary key given to a newly created row of a table
NuevoId(filas) ==
    LET ids == {f.id : f \in filas}
    IN  CHOOSE n \in 1..(Cardinality(ids) + 1) :
            n \notin ids /\ \A k \in 1..(n - 1) : k \in ids

\* CargarAntibiogramaView._get_interpretation, with the direct S/R/I match
GetInterpretation(interpretacion) ==
    IF interpretacion = NULL THEN "ND"
    ELSE IF interpretacion = "na" THEN "NA"
    ELSE IF interpretacion \in {"S", "R", "I"} THEN interpretacion
    ELSE "ND"

Tupla(i, c, h) == [interp |-> i, cmi |-> c, halo |-> h]

\* the intrinsic-resistance loop of _get_antibiogram: base and variants to R
RECURSIVE MarcarIntrinseca(_, _, _, _, _)
MarcarIntrinseca(d, i, base, cmi, halo) ==
    IF i > Len(OrdenPk) THEN d
    ELSE LET v == OrdenPk[i]
         IN  MarcarIntrinseca(
                 IF v = base \/ Parent[v] = base
                 THEN DictSet(d, v, Tupla("R", cmi, halo)) ELSE d,
                 i + 1, base, cmi, halo)

\* CargarAntibiogramaView._apply_eucast_breakpoints, merged into the dict as
\* _get_antibiogram does (the base entry is never overwritten)
RECURSIVE ApplyEucastBreakpoints(_, _, _, _, _, _, _, _, _, _)
ApplyEucastBreakpoints(d, i, base, cmi, halo, version, m, edad, sexo, muestra) ==
    IF i > Len(Reglas) THEN d
    ELSE LET r == Reglas[i]
             usa == /\ r.antibiotico \in Variantes(base)
                    /\ r.version_eucast = version
                    /\ ReglaAplica(r, r.antibiotico, m, Taxon[m].grupo, edad,
                                   sexo, muestra, version)
                    /\ r.antibiotico # base
         IN  ApplyEucastBreakpoints(
                 IF usa THEN DictSet(d, r.antibiotico,
                                     Tupla(Interpret(r, cmi, halo), cmi, halo))
                 ELSE d,
                 i + 1, base, cmi, halo, version, m, edad, sexo, muestra)

\* CargarAntibiogramaView._get_antibiogram
RECURSIVE GetAntibiogram(_, _, _, _, _, _)
GetAntibiogram(d, i, fila, h, m, dem) ==
    IF i > Len(Perfil[h]) THEN d
    ELSE LET a == Perfil[h][i]
             interpretacion == fila.interp[a]
             cmi == fila.cmi[a]
             halo == fila.halo[a]
             tiene_datos == ~ (interpretacion = NULL /\ cmi = None /\ halo = None)
             interpretacion_std == GetInterpretation(interpretacion)
             valido == \/ interpretacion_std \in {"S", "R", "I"}
                       \/ cmi # None \/ halo # None
             d2 == IF ~ tiene_datos \/ ~ valido THEN d
                   ELSE IF a \in ResistenciaIntrinseca[m]
                   THEN MarcarIntrinseca(d, 1, a, cmi, halo)
                   ELSE ApplyEucastBreakpoints(
                            DictSet(d, a, Tupla(interpretacion_std, cmi, halo)),
                            1, a, cmi, halo, dem.version_eucast, m, dem.edad,
                            dem.sexo.base, dem.muestra.base)
         IN  GetAntibiogram(d2, i + 1, fila, h, m, dem)

\* CargarAntibiogramaView._get_arm: acquired resistance over the result dict
AntibioticosResistentes(mecs, subs) ==
    UNION {ResistenciaAdquirida[k] : k \in mecs}
        \cup UNION {ResistenciaAdquiridaSubtipo[k] : k \in subs}
GetArm_todo_menos_R(d, mecs, subs) ==
    [i \in DOMAIN d |->
        IF /\ d[i][1] \in AntibioticosResistentes(mecs, subs)
           /\ d[i][2].interp # "R"
        THEN <<d[i][1], Tupla("R", d[i][2].cmi, d[i][2].halo)>>
        ELSE d[i]]
GetArm(d, mecs, subs) ==
    [i \in DOMAIN d |->
        IF /\ d[i][1] \in AntibioticosResistentes(mecs, subs)
           /\ d[i][2].interp \notin {"NA", "ND"}
           /\ d[i][2].interp # "R"
        THEN <<d[i][1], Tupla("R", d[i][2].cmi, d[i][2].halo)>>
        ELSE d[i]]

\* CargarAntibiogramaView._is_duplicated (values have at most 3 decimals, so
\* round(x, 3) changes none of them)
ResultadosDe(res, aid) == {r \in res : r.aislado = aid}
MapaExistente(res, aid) ==
    [a \in {r.antibiotico : r \in ResultadosDe(res, aid)} |->
        LET r == CHOOSE x \in ResultadosDe(res, aid) : x.antibiotico = a
        IN  Tupla(r.interpretacion, r.cmi, r.halo)]
IsDuplicated(ais, res, rid, m, finales) ==
    \E a \in ais : /\ a.registro = rid /\ a.microorganismo = m
                   /\ MapaExistente(res, a.id) = DictFun(finales)

\* the loop of _create_isolate over resultados_finales; a MIC that does not
\* fit the DecimalField makes ResultadoAntibiotico.objects.create raise
RECURSIVE CreateResultados(_, _, _, _, _)
CreateResultados(acc, i, finales, aid, intrinsecas) ==
    IF i > Len(finales) THEN [resultados |-> acc, fallo |-> FALSE]
    ELSE LET id == finales[i][1]
             t == finales[i][2]
             interp_to_save == IF id \in intrinsecas THEN "R" ELSE t.interp
         IN  IF interp_to_save = "ND" /\ t.cmi = None /\ t.halo = None
             THEN CreateResultados(acc, i + 1, finales, aid, intrinsecas)
             ELSE IF t.cmi # None /\ Val(t.cmi) > CmiMaxMilli
             THEN [resultados |-> acc, fallo |-> TRUE]
             ELSE CreateResultados(
                      acc \cup {[aislado |-> aid, antibiotico |-> id,
                                 interpretacion |-> interp_to_save,
                                 cmi |-> t.cmi, halo |-> t.halo]},
                      i + 1, finales, aid, intrinsecas)

(***************************************************************************)
(* The rows a file may hold: a reference row and every row that differs    *)
(* from it in one cell.                                                    *)
(***************************************************************************)
FilaBase ==
    [nh |-> "p1", fecha |-> Some(1), edad |-> Some(400), sexo |-> "m",
     ambito |-> "a", servicio |-> "s", muestra |-> "t",
     interp |-> [a \in Antibioticos |-> IF a = "B" THEN "S" ELSE NULL],
     cmi |-> [a \in Antibioticos |-> None],
     halo |-> [a \in Antibioticos |-> None],
     mec |-> {}, sub |-> {}]
Filas ==
    {FilaBase, [FilaBase EXCEPT !.nh = NULL], [FilaBase EXCEPT !.edad = None],
     [FilaBase EXCEPT !.edad = Some(405)],
     [FilaBase EXCEPT !.sexo = "?"], [FilaBase EXCEPT !.ambito = "?"],
     [FilaBase EXCEPT !.servicio = "?"], [FilaBase EXCEPT !.muestra = "?"],
     [FilaBase EXCEPT !.interp["B"] = NULL], [FilaBase EXCEPT !.interp["V"] = "S"],
     [FilaBase EXCEPT !.mec = {"blee"}]}
    \cup {[FilaBase EXCEPT !.fecha = f] : f \in {None, Some(2)}}
    \cup {[FilaBase EXCEPT !.cmi["B"] = c] : c \in {Some(2000), Some(1024000)}}

\* the mandatory demographic fields of a row that resolve to nothing
Faltan(fila) ==
    {c \in {"fecha", "sexo", "ambito", "servicio", "muestra"} :
        \/ c = "fecha" /\ fila.fecha = None
        \/ c = "sexo" /\ fila.sexo \notin Sexos
        \/ c = "ambito" /\ fila.ambito \notin Ambitos
        \/ c = "servicio" /\ fila.servicio \notin Servicios
        \/ c = "muestra" /\ fila.muestra \notin TiposMuestra}

\* what the load reports of a row: its outcome, the mandatory fields it
\* lacked, whether a stored Registro of the tenant had its key before the row
\* and how get_or_create_registro counted it
Entrada(resultado, fila, coincide, cuenta) ==
    [resultado |-> resultado, faltan |-> Faltan(fila), coincide |-> coincide,
     cuenta |-> cuenta]

\* except Exception / datos is None: contadores["registros_errores"] += 1
ContarError_omitido(c) == c
ContarError(c) == [c EXCEPT !.registros_errores = @ + 1]

ContadoresIniciales ==
    [registros_creados |-> 0, registros_reutilizados |-> 0, registros_errores |-> 0,
     aislados_creados |-> 0, duplicados_omitidos |-> 0, errores_resultados |-> 0]
CacheVacia == [k \in {} |-> 0]

ArmInicial ==
    [entrada |-> << >>, mecs |-> {}, subs |-> {}, salida |-> << >>, hecho |-> FALSE]

EstadoCargaInicial ==
    /\ registros = {} /\ aislados = {} /\ resultados = {}
    /\ fase = "idle" /\ hospital = "h1" /\ microorganismo = "eco"
    /\ total = 0 /\ pos = 1
    /\ contadores = ContadoresIniciales
    /\ registros_cache = CacheVacia
    /\ timestamp_carga = 0 /\ procesadas = 0
    /\ anterior = FilaBase /\ uniforme = TRUE
    /\ log = << >> /\ log_previo = << >> /\ repite = FALSE

LoteInicial ==
    [estado |-> "idle", hospital |-> "h1", version |-> "v1", pendientes |-> {},
     hechos |-> {}, numero |-> 0]
InicioVacio == [resultados |-> {}, reinterpretaciones |-> {}]

InitCarga ==
    /\ EstadoCargaInicial /\ reinterpretaciones = {} /\ arm = ArmInicial
    /\ lote = LoteInicial /\ inicio = InicioVacio /\ InitAnalisis

\* form_valid up to the row loop: counters, caches and load timestamp
IniciarCarga(h, m, n) ==
    /\ fase \in {"idle", "fin"}
    /\ timestamp_carga < MaxCargas /\ procesadas + n <= MaxFilasTotal
    /\ fase' = "filas" /\ hospital' = h /\ microorganismo' = m
    /\ total' = n /\ pos' = 1
    /\ contadores' = ContadoresIniciales
    /\ registros_cache' = CacheVacia
    /\ timestamp_carga' = timestamp_carga + 1
    /\ anterior' = FilaBase /\ uniforme' = TRUE
    /\ log' = << >> /\ log_previo' = << >> /\ repite' = FALSE
    /\ UNCHANGED <<registros, aislados, resultados, procesadas, ajenasCarga>>

\* the same file submitted again right after its load (same tenant, organism
\* and mapping); it is known when the file repeats one row
RepetirCarga ==
    /\ fase = "fin" /\ ~ repite /\ uniforme /\ total >= 1
    /\ timestamp_carga < MaxCargas /\ procesadas + total <= MaxFilasTotal
    /\ fase' = "filas" /\ pos' = 1
    /\ contadores' = ContadoresIniciales
    /\ registros_cache' = CacheVacia
    /\ timestamp_carga' = timestamp_carga + 1
    /\ log_previo' = log /\ log' = << >> /\ repite' = TRUE
    /\ UNCHANGED <<registros, aislados, resultados, hospital, microorganismo,
                   total, procesadas, anterior, uniforme, ajenasCarga>>

\* the Registro that get_or_create_registro returns: cached, found or new
CandidatosRegistro(dem) ==
    IF RegistroKey(dem) \in DOMAIN registros_cache
    THEN {registros_cache[RegistroKey(dem)]}
    ELSE IF RegistrosCoincidentes(registros, dem, hospital) = {}
    THEN {NuevoId(registros)}
    ELSE {r.id : r \in RegistrosCoincidentes(registros, dem, hospital)}

\* get_or_create_registro
GetOrCreateRegistro(dem, rid) ==
    LET key == RegistroKey(dem)
        enCache == key \in DOMAIN registros_cache
        creado == ~ enCache /\ RegistrosCoincidentes(registros, dem, hospital) = {}
    IN  [registros |->
            IF creado
            THEN registros \cup
                 {[id |-> rid, hospital |-> hospital, nh_hash |-> dem.nh_hash,
                   fecha |-> dem.fecha, edad |-> IntEdad(dem.edad),
                   sexo |-> dem.sexo,
                   ambito |-> dem.ambito, servicio |-> dem.servicio,
                   tipo_muestra |-> dem.muestra]}
            ELSE registros,
         contadores |->
            IF enCache THEN contadores
            ELSE IF creado
            THEN [contadores EXCEPT !.registros_creados = @ + 1]
            ELSE [contadores EXCEPT !.registros_reutilizados = @ + 1],
         cache |->
            IF enCache THEN registros_cache
            ELSE [k \in DOMAIN registros_cache \cup {key} |->
                    IF k = key THEN rid ELSE registros_cache[k]]]

\* steps 4.2 to 4.5 of the row loop of form_valid, with the Registro rid
FilaConRegistro(fila, dem, rid) ==
    LET g == GetOrCreateRegistro(dem, rid)
        antibiograma == GetAntibiogram(<< >>, 1, fila, hospital, microorganismo, dem)
        sin_resultados == \A i \in DOMAIN antibiograma : antibiograma[i][2].interp = "ND"
        finales == GetArm(antibiograma, fila.mec, fila.sub)
        aid == NuevoId(aislados)
        cr == CreateResultados({}, 1, finales, aid,
                               ResistenciaIntrinseca[microorganismo])
        aislado == [id |-> aid, hospital |-> hospital, registro |-> rid,
                    microorganismo |-> microorganismo,
                    version_eucast |-> dem.version_eucast,
                    mecanismos |-> fila.mec, subtipos |-> fila.sub]
        coincide == RegistrosCoincidentes(registros, dem, hospital) # {}
        cuenta ==
            IF g.contadores.registros_creados > contadores.registros_creados
            THEN "creado"
            ELSE IF g.contadores.registros_reutilizados
                        > contadores.registros_reutilizados
            THEN "reutilizado" ELSE "nada"
    IN  /\ registros' = g.registros
        /\ registros_cache' = g.cache
        /\ IF sin_resultados
           THEN /\ contadores' = g.contadores
                /\ log' = Append(log, Entrada("sin_resultados", fila, coincide, cuenta))
                /\ UNCHANGED <<aislados, resultados>>
           ELSE IF IsDuplicated(aislados, resultados, rid, microorganismo, finales)
           THEN /\ contadores' = [g.contadores EXCEPT !.duplicados_omitidos = @ + 1]
                /\ log' = Append(log, Entrada("duplicado", fila, coincide, cuenta))
                /\ UNCHANGED <<aislados, resultados>>
           ELSE /\ aislados' = aislados \cup {aislado}
                /\ resultados' = resultados \cup cr.resultados
                /\ IF cr.fallo
                   THEN /\ contadores' = ContarError(g.contadores)
                        /\ log' = Append(log, Entrada("error", fila, coincide, cuenta))
                   ELSE /\ contadores' = [g.contadores EXCEPT !.aislados_creados = @ + 1]
                        /\ log' = Append(log, Entrada("creado", fila, coincide, cuenta))

\* one iteration of the row loop of form_valid, try/except included
ProcesarFila ==
    /\ fase = "filas" /\ pos <= total
    /\ \E fila \in (IF repite THEN {anterior} ELSE Filas) :
        LET dem == GetDemographicData(fila, hospital, timestamp_carga, pos,
                                      microorganismo)
        IN  /\ IF dem.estado # "ok"
               THEN /\ contadores' = ContarError(contadores)
                    /\ log' = Append(log, Entrada("error", fila, FALSE, "nada"))
                    /\ UNCHANGED <<registros, aislados, resultados, registros_cache>>
               ELSE \E rid \in CandidatosRegistro(dem) : FilaConRegistro(fila, dem, rid)
            /\ uniforme' = (pos = 1 \/ (uniforme /\ fila = anterior))
            /\ anterior' = IF uniforme' THEN fila ELSE FilaBase
    /\ pos' = pos + 1 /\ procesadas' = procesadas + 1
    /\ UNCHANGED <<fase, hospital, microorganismo, total, timestamp_carga,
                   log_previo, repite, ajenasCarga>>

\* step 5 of form_valid: Registro.objects.filter(aislados__isnull=True).delete()
RegistrosHuerfanos_del_hospital(regs, ais) ==
    {r \in regs : r.hospital = hospital /\ ~ \E a \in ais : a.registro = r.id}
RegistrosHuerfanos(regs, ais) == {r \in regs : ~ \E a \in ais : a.registro = r.id}
FinalizarCarga ==
    /\ fase = "filas" /\ pos > total
    /\ registros' = registros \ RegistrosHuerfanos(registros, aislados)
    /\ fase' = "fin"
    /\ UNCHANGED <<aislados, resultados, hospital, microorganismo, total, pos,
                   contadores, registros_cache, timestamp_carga, procesadas,
                   anterior, uniforme, log, log_previo, repite, ajenasCarga>>

\* RegistroUpdateView.form_valid with one isolate marked for deletion in the
\* formset, after a load: the isolate and, by cascade, its results are deleted
EliminarAislado(a) ==
    /\ fase = "fin"
    /\ a \in aislados
    /\ aislados' = aislados \ {a}
    /\ resultados' = resultados \ ResultadosDe(resultados, a.id)
    /\ fase' = "idle"
    /\ UNCHANGED <<registros, hospital, microorganismo, total, pos, contadores,
                   registros_cache, timestamp_carga, procesadas, anterior,
                   uniforme, log, log_previo, repite, ajenasCarga>>

NextCarga ==
    \/ \E h \in Hospitales, m \in Microorganismos, n \in 0..MaxFilas :
          IniciarCarga(h, m, n)
    \/ RepetirCarga
    \/ ProcesarFila
    \/ FinalizarCarga
    \/ \E a \in aislados : EliminarAislado(a)

SpecCarga == InitCarga /\ [][NextCarga]_vars

(***************************************************************************)
(* Properties of the ingestion.                                            *)
(***************************************************************************)

\* C1: when the same file has been ingested a second time (same tenant,
\* organism and mapping, store unchanged in between), the second run created
\* no Isolate and dropped as a duplicate every row that produced an Isolate
\* in the first run.
C1_SegundaCargaSinAislados ==
    (fase = "fin" /\ repite) =>
        /\ contadores.aislados_creados = 0
        /\ \A i \in DOMAIN log :
              log_previo[i].resultado = "creado" => log[i].resultado = "duplicado"

\* C2: when a file made of two identical rows has been loaded and the first
\* row produced an Isolate, exactly one Isolate was created for the two rows
\* and the duplicate counter is 1, with or without patient number.
C2_FilasIdenticas ==
    (fase = "fin" /\ ~ repite /\ total = 2 /\ uniforme
                  /\ log[1].resultado = "creado") =>
        /\ contadores.aislados_creados = 1
        /\ contadores.duplicados_omitidos = 1

\* C3: in an Isolate whose row carried data for a base antibiotic of the
\* organism's intrinsic-resistance set, every Result of that base and of each
\* of its variants is R.
C3_IntrinsecaFuerzaR ==
    \A a \in aislados : \A b \in ResistenciaIntrinseca[a.microorganismo] :
        (\E r \in ResultadosDe(resultados, a.id) : r.antibiotico = b) =>
            \A r \in ResultadosDe(resultados, a.id) :
                (r.antibiotico = b \/ Parent[r.antibiotico] = b)
                    => r.interpretacion = "R"

\* C5: no two Records of one tenant share (patient-hash, date, age, sex,
\* scope, service, sample-type), and every row whose key matched a stored
\* Record was counted as a reuse.
C5_RegistroUnico ==
    /\ \A r1, r2 \in registros :
          (/\ r1.hospital = r2.hospital /\ r1.nh_hash = r2.nh_hash
           /\ r1.fecha = r2.fecha /\ r1.edad = r2.edad /\ r1.sexo = r2.sexo
           /\ r1.ambito = r2.ambito /\ r1.servicio = r2.servicio
           /\ r1.tipo_muestra = r2.tipo_muestra) => r1.id = r2.id
    /\ \A i \in DOMAIN log : log[i].coincide => log[i].cuenta = "reutilizado"

\* C6: a row that fails does not abort the file: when the load has finished
\* every row of the file was processed and the error counter holds one count
\* for each failed row.
C6_FalloNoAborta ==
    /\ fase = "filas" => Len(log) = pos - 1 /\ pos <= total + 1
    /\ fase = "fin" =>
          /\ Len(log) = total
          /\ contadores.registros_errores =
                Cardinality({i \in DOMAIN log : log[i].resultado = "error"})
C6_Witness ==
    /\ fase = "fin" /\ total = 2
    /\ log[1].resultado = "error" /\ log[2].resultado = "creado"

\* C7: when a load that reached row processing has finished, every Record
\* of the store has at least one Isolate.
C7_SinHuerfanos ==
    fase = "fin" => \A r \in registros : \E a \in aislados : a.registro = r.id
C7_Witness ==
    /\ fase = "fin"
    /\ \E i \in DOMAIN log :
          log[i].resultado = "sin_resultados" /\ log[i].cuenta = "creado"

\* C8: a row with a mandatory demographic field (date, sex, scope, service,
\* sample type) that does not resolve leaves Records, Isolates and Results as
\* they were and adds one to the error counter, and to no other counter.
C8_DemografiaObligatoria ==
    [][(/\ fase = "filas" /\ Len(log') = Len(log) + 1
        /\ log'[Len(log')].faltan # {})
          => /\ registros' = registros /\ aislados' = aislados
             /\ resultados' = resultados
             /\ contadores' = [contadores EXCEPT !.registros_errores = @ + 1]]_vars
C8_Witness ==
    /\ fase = "fin" /\ total = 2
    /\ log[1].faltan = {"servicio"} /\ log[1].resultado = "error"
    /\ log[2].faltan = {"fecha"} /\ log[2].resultado = "error"
    /\ registros = {} /\ contadores.registros_errores = 2

(***************************************************************************)
(* _get_arm as a function of the row's result map and of the mechanisms    *)
(* and subtypes that detect_arm reports.                                   *)
(***************************************************************************)
Interpretaciones == {"S", "I", "R", "ND", "NA"}
TuplasArm ==
    {Tupla(i, c, h) : i \in Interpretaciones, c \in {None, Some(2000)},
                      h \in {None, Some(20)}}
MapasArm ==
    {<< >>} \cup {<< <<a, t>> >> : a \in Antibioticos, t \in TuplasArm}
        \cup {d \in {<< <<a, t>>, <<b, u>> >> :
                        a \in Antibioticos, b \in Antibioticos,
                        t \in TuplasArm, u \in TuplasArm} : d[1][1] # d[2][1]}

InitArm ==
    /\ EstadoCargaInicial /\ reinterpretaciones = {}
    /\ lote = LoteInicial /\ inicio = InicioVacio /\ InitAnalisis
    /\ \E d \in MapasArm, mecs \in SUBSET Mecanismos, subs \in SUBSET Subtipos :
          arm = [entrada |-> d, mecs |-> mecs, subs |-> subs, salida |-> << >>,
                 hecho |-> FALSE]

AplicarArm ==
    /\ ~ arm.hecho
    /\ arm' = [arm EXCEPT !.salida = GetArm(arm.entrada, arm.mecs, arm.subs),
                          !.hecho = TRUE]
    /\ UNCHANGED <<varsCarga, reinterpretaciones, lote, inicio, analisis>>

NextArm == AplicarArm

SpecArm == InitArm /\ [][NextArm]_vars

\* C4: _get_arm keeps the keys of the map; an entry whose antibiotic is in
\* the acquired-resistance set of a detected mechanism or subtype and whose
\* interpretation is S or I becomes R with its mic and halo; every other
\* entry (ND, NA, R, or an antibiotic outside the set) is returned as it was.
C4_ResistenciaAdquirida ==
    arm.hecho =>
        /\ Len(arm.salida) = Len(arm.entrada)
        /\ \A i \in DOMAIN arm.entrada :
              LET a == arm.entrada[i][1]
                  t == arm.entrada[i][2]
                  afectado ==
                      \/ \E k \in arm.mecs : a \in ResistenciaAdquirida[k]
                      \/ \E k \in arm.subs : a \in ResistenciaAdquiridaSubtipo[k]
              IN  IF afectado /\ t.interp \in {"S", "I"}
                  THEN arm.salida[i] = <<a, [interp |-> "R", cmi |-> t.cmi,
                                            halo |-> t.halo]>>
                  ELSE arm.salida[i] = arm.entrada[i]
C4_Witness ==
    /\ arm.hecho /\ arm.mecs = {"blee"} /\ arm.subs = {"ctxm"}
    /\ arm.entrada = << <<"V", Tupla("ND", Some(2000), None)>>,
                        <<"B", Tupla("I", Some(2000), Some(20))>> >>
    /\ arm.salida = << <<"V", Tupla("ND", Some(2000), None)>>,
                       <<"B", Tupla("R", Some(2000), Some(20))>> >>

(***************************************************************************)
(* Reinterpretation (Base/models.py, Tendencias/views.py).  The store the  *)
(* batches start from holds one or two Isolates of one tenant, each as     *)
(* the ingestion persists it for a row; the variables of the load request  *)
(* keep their initial values.  A Reinterpretation names its Result by the  *)
(* pair (aislado, antibiotico), which is unique among Results.             *)
(***************************************************************************)
\* the last row gives a MIC for B and no interpretation
FilasReinterpretables ==
    {f \in Filas : /\ f.nh = "p1" /\ f.edad = Some(400) /\ Faltan(f) = {}
                    /\ f.interp["B"] # NULL}
        \cup {[FilaBase EXCEPT !.interp["B"] = NULL, !.cmi["B"] = Some(2000)]}

\* what the row loop of form_valid persists for a row that creates Registro
\* rid and Aislado aid in tenant h
CargaDe(fila, h, m, rid, aid) ==
    LET dem == GetDemographicData(fila, h, 1, 1, m)
        finales == GetArm(GetAntibiogram(<< >>, 1, fila, h, m, dem), fila.mec, fila.sub)
    IN  [registro |->
            [id |-> rid, hospital |-> h, nh_hash |-> dem.nh_hash,
             fecha |-> dem.fecha, edad |-> IntEdad(dem.edad), sexo |-> dem.sexo,
             ambito |-> dem.ambito, servicio |-> dem.servicio,
             tipo_muestra |-> dem.muestra],
         aislado |->
            [id |-> aid, hospital |-> h, registro |-> rid, microorganismo |-> m,
             version_eucast |-> dem.version_eucast, mecanismos |-> fila.mec,
             subtipos |-> fila.sub],
         resultados |->
            CreateResultados({}, 1, finales, aid, ResistenciaIntrinseca[m]).resultados]

AlmacenesIniciales ==
    LET uno == {<<CargaDe(f, h, m, 1, 1)>> :
                    f \in FilasReinterpretables, h \in Hospitales,
                    m \in Microorganismos}
        dos == {<<c[1], CargaDe([f EXCEPT !.nh = "p2"], c[1].aislado.hospital, m, 2, 2)>> :
                    c \in uno, f \in FilasReinterpretables, m \in Microorganismos}
    IN  uno \cup dos

InitReint ==
    /\ \E cs \in AlmacenesIniciales :
          /\ registros = {cs[i].registro : i \in DOMAIN cs}
          /\ aislados = {cs[i].aislado : i \in DOMAIN cs}
          /\ resultados = UNION {cs[i].resultados : i \in DOMAIN cs}
    /\ fase = "idle" /\ hospital = "h1" /\ microorganismo = "eco"
    /\ total = 0 /\ pos = 1
    /\ contadores = ContadoresIniciales
    /\ registros_cache = CacheVacia
    /\ timestamp_carga = 0 /\ procesadas = 0
    /\ anterior = FilaBase /\ uniforme = TRUE
    /\ log = << >> /\ log_previo = << >> /\ repite = FALSE
    /\ reinterpretaciones = {} /\ arm = ArmInicial
    /\ lote = LoteInicial /\ inicio = InicioVacio /\ InitAnalisis

\* what a reinterpretation batch leaves alone
fijasReint ==
    <<registros, aislados, fase, hospital, microorganismo, total, pos, contadores,
      registros_cache, timestamp_carga, procesadas, anterior, uniforme, log,
      log_previo, repite, arm, analisis>>

\* ReinterpretacionAntibiotico.objects.update_or_create
UpdateOrCreate_siempre_crea(reints, aid, ab, ver, interp, es) ==
    reints \cup {[id |-> NuevoId(reints), aislado |-> aid, antibiotico |-> ab,
                  version_eucast |-> ver, interpretacion_nueva |-> interp,
                  es_reinterpretado |-> es]}
UpdateOrCreate(reints, aid, ab, ver, interp, es) ==
    IF \E x \in reints :
          x.aislado = aid /\ x.antibiotico = ab /\ x.version_eucast = ver
    THEN {IF x.aislado = aid /\ x.antibiotico = ab /\ x.version_eucast = ver
          THEN [x EXCEPT !.interpretacion_nueva = interp, !.es_reinterpretado = es]
          ELSE x : x \in reints}
    ELSE reints \cup {[id |-> NuevoId(reints), aislado |-> aid, antibiotico |-> ab,
                       version_eucast |-> ver, interpretacion_nueva |-> interp,
                       es_reinterpretado |-> es]}

\* the first rule of (antibiotic, version) that applies, in primary-key
\* order: its index in Reglas, or 0 when none applies
RECURSIVE PrimeraRegla(_, _, _, _, _)
PrimeraRegla(i, ab, ver, a, reg) ==
    IF i > Len(Reglas) THEN 0
    ELSE IF /\ Reglas[i].antibiotico = ab /\ Reglas[i].version_eucast = ver
            /\ ReglaAplica(Reglas[i], ab, a.microorganismo,
                           Taxon[a.microorganismo].grupo, reg.edad, reg.sexo.base,
                           reg.tipo_muestra.base, ver)
    THEN i
    ELSE PrimeraRegla(i + 1, ab, ver, a, reg)

\* one iteration of the loop of reinterpretar over the antibiotics of the
\* profile; st holds the Results and the Reinterpretations
ReinterpretarAntibiotico(st, a, reg, ver, ab) ==
    LET propios == {r \in st.resultados : r.aislado = a.id /\ r.antibiotico = ab}
        padres == {r \in st.resultados :
                      r.aislado = a.id /\ r.antibiotico = Parent[ab]}
        enPerfil == \E i \in DOMAIN Perfil[a.hospital] :
                        Perfil[a.hospital][i] = Parent[ab]
        crea == propios = {} /\ Parent[ab] # NULL /\ enPerfil /\ padres # {}
        resultado ==
            IF propios # {} THEN CHOOSE r \in propios : TRUE
            ELSE LET padre == CHOOSE r \in padres : TRUE
                 IN  [aislado |-> a.id, antibiotico |-> ab, interpretacion |-> "ND",
                      cmi |-> padre.cmi, halo |-> padre.halo]
        k == PrimeraRegla(1, ab, ver, a, reg)
        de_regla == IF k = 0 THEN NULL
                    ELSE Interpret(Reglas[k], resultado.cmi, resultado.halo)
        sin_valor == de_regla \in {NULL, "ND"}
        copiada == IF sin_valor THEN resultado.interpretacion ELSE de_regla
        es_regla == IF sin_valor \/ k = 0 THEN FALSE
                    ELSE ~ (resultado.cmi = None /\ resultado.halo = None)
        adquirida == /\ ab \in AntibioticosResistentes(a.mecanismos, a.subtipos)
                     /\ copiada \notin {"R", "NA", "ND"}
    IN  IF propios = {} /\ ~ crea THEN st
        ELSE IF sin_valor /\ resultado.interpretacion = "ND"
        THEN [resultados |-> st.resultados \ {resultado},
              reinterpretaciones |->
                  {x \in st.reinterpretaciones :
                      ~ (x.aislado = a.id /\ x.antibiotico = ab)}]
        ELSE [resultados |-> st.resultados \cup {resultado},
              reinterpretaciones |->
                  UpdateOrCreate(st.reinterpretaciones, a.id, ab, ver,
                                 IF adquirida THEN "R" ELSE copiada,
                                 IF adquirida THEN TRUE ELSE es_regla)]

\* ReinterpretacionAntibiotico.reinterpretar, up to profile position hasta
RECURSIVE Reinterpretar(_, _, _, _, _, _)
Reinterpretar(st, i, hasta, a, reg, ver) ==
    IF i > hasta THEN st
    ELSE Reinterpretar(
             ReinterpretarAntibiotico(st, a, reg, ver, Perfil[a.hospital][i]),
             i + 1, hasta, a, reg, ver)

RegistroDe(a) == CHOOSE r \in registros : r.id = a.registro

\* reinterpretar_resultados: the form is valid and the isolates are selected
\* (those of the tenant dated from desde on, of organism m if one is given)
IniciarLote(h, ver, desde, m) ==
    /\ lote.estado # "run" /\ lote.numero < MaxLotes
    /\ lote' = [estado |-> "run", hospital |-> h, version |-> ver,
                pendientes |->
                    {a.id : a \in {x \in aislados :
                        /\ x.hospital = h
                        /\ RegistroDe(x).fecha >= desde
                        /\ (m = NULL \/ x.microorganismo = m)}},
                hechos |-> {}, numero |-> lote.numero + 1]
    /\ inicio' = [resultados |-> resultados,
                  reinterpretaciones |-> reinterpretaciones]
    /\ UNCHANGED <<fijasReint, resultados, reinterpretaciones>>

\* one iteration of the loop of reinterpretar_resultados
ReinterpretarAislado(a) ==
    /\ lote.estado = "run" /\ a.id \in lote.pendientes
    /\ LET st == Reinterpretar([resultados |-> resultados,
                                reinterpretaciones |-> reinterpretaciones],
                               1, Len(Perfil[a.hospital]), a, RegistroDe(a),
                               lote.version)
       IN  /\ resultados' = st.resultados
           /\ reinterpretaciones' = st.reinterpretaciones
    /\ lote' = [lote EXCEPT !.pendientes = @ \ {a.id}, !.hechos = @ \cup {a.id}]
    /\ UNCHANGED <<fijasReint, inicio>>

\* an iteration in which a database operation raises after hasta antibiotics
\* of the isolate: nothing catches it and the view ends with an error
FallarAislado(a, hasta) ==
    /\ lote.estado = "run" /\ a.id \in lote.pendientes
    /\ LET st == Reinterpretar([resultados |-> resultados,
                                reinterpretaciones |-> reinterpretaciones],
                               1, hasta, a, RegistroDe(a), lote.version)
       IN  /\ resultados' = st.resultados
           /\ reinterpretaciones' = st.reinterpretaciones
    /\ lote' = [lote EXCEPT !.estado = "fallo"]
    /\ UNCHANGED <<fijasReint, inicio>>

\* the loop is over: success message and redirect
TerminarLote ==
    /\ lote.estado = "run" /\ lote.pendientes = {}
    /\ lote' = [lote EXCEPT !.estado = "ok"]
    /\ UNCHANGED <<fijasReint, resultados, reinterpretaciones, inicio>>

NextReint ==
    \/ \E h \in Hospitales, ver \in Versiones, desde \in {1, 2},
          m \in {NULL, "eco"} : IniciarLote(h, ver, desde, m)
    \/ \E a \in aislados : ReinterpretarAislado(a)
    \/ \E a \in aislados, hasta \in {0, 1} : FallarAislado(a, hasta)
    \/ TerminarLote

SpecReint == InitReint /\ [][NextReint]_vars

\* C9: at every moment of any sequence of reinterpretation runs there is at
\* most one Reinterpretation for a (Result, EucastVersion) pair, and a run
\* that meets an existing one keeps it (same row) instead of adding another.
C9_ReinterpretacionUnica ==
    /\ [](\A x, y \in reinterpretaciones :
            (/\ x.aislado = y.aislado /\ x.antibiotico = y.antibiotico
             /\ x.version_eucast = y.version_eucast) => x.id = y.id)
    /\ [][\A x \in reinterpretaciones : \A y \in reinterpretaciones' :
            (/\ x.aislado = y.aislado /\ x.antibiotico = y.antibiotico
             /\ x.version_eucast = y.version_eucast) => x.id = y.id]_vars
C9_Witness ==
    /\ lote.estado = "ok" /\ lote.numero = 2
    /\ \E x \in inicio.reinterpretaciones : \E y \in reinterpretaciones :
          /\ x.version_eucast = lote.version /\ y.version_eucast = lote.version
          /\ x.aislado \in lote.hechos
          /\ x.aislado = y.aislado /\ x.antibiotico = y.antibiotico
          /\ x.id = y.id

\* C11: a reinterpretation run deletes no Result that existed before it, and
\* a Result of a processed isolate for which no rule of the target version
\* gives S, I or R has a Reinterpretation at that version that copies its
\* stored interpretation with es_reinterpretado false (R by acquired
\* resistance apart).
C11_NoBorraResultados ==
    lote.numero >= 1 =>
        /\ inicio.resultados \subseteq resultados
        /\ \A r \in inicio.resultados : \A a \in aislados :
              LET k == PrimeraRegla(1, r.antibiotico, lote.version, a, RegistroDe(a))
                  sin_valor == \/ k = 0
                               \/ Interpret(Reglas[k], r.cmi, r.halo) = "ND"
                  adquirida ==
                      /\ r.antibiotico
                            \in AntibioticosResistentes(a.mecanismos, a.subtipos)
                      /\ r.interpretacion \notin {"R", "NA", "ND"}
              IN  (a.id = r.aislado /\ a.id \in lote.hechos /\ sin_valor
                                     /\ ~ adquirida) =>
                      \E x \in reinterpretaciones :
                          /\ x.aislado = r.aislado /\ x.antibiotico = r.antibiotico
                          /\ x.version_eucast = lote.version
                          /\ x.interpretacion_nueva = r.interpretacion
                          /\ ~ x.es_reinterpretado

\* C10: the batch is one transaction: when the processing of an isolate
\* has failed, the Results and the Reinterpretations are those the batch
\* started from.
C10_LoteAtomico ==
    lote.estado = "fallo" =>
        /\ resultados = inicio.resultados
        /\ reinterpretaciones = inicio.reinterpretaciones

(***************************************************************************)
(* Aggregations: the explorer (ResultadosResistenciaView.form_valid), the  *)
(* fixed report (_build_data_for_pdf) and the trend analysis (tendencias   *)
(* with get_tendency_data and count_results) over a store of one tenant    *)
(* and one organism.  Dates are 1 and 2 (versions v1 and v2); the only     *)
(* optional filter given is the service; no dimension has                  *)
(* ignorar_informes set; the antibiotic analysed is the base "B".          *)
(***************************************************************************)
MaxAislados == 2

PacientesInforme == {"p1", "p2"}
FechasInforme == {1, 2}
ServiciosInforme == {"s", "u"}
SIR == {"S", "I", "R"}

\* what an isolate of the store is made of: patient, date, service, the
\* stored interpretation of B (NULL: no Result) and the interpretation of
\* its Reinterpretation at the other version (NULL: none)
FichasAislado ==
    {f \in [nh : PacientesInforme, fecha : FechasInforme,
            servicio : ServiciosInforme, interp : {NULL, "S"},
            reint : {NULL, "R"}] :
        f.interp = NULL => f.reint = NULL}

\* (patient, date, service) is unique among the Registros of a tenant: the
\* isolates of one such key hang from one Registro, the first with that key
RegistroFicha(fs, i) ==
    CHOOSE j \in 1..i :
        /\ fs[j].nh = fs[i].nh /\ fs[j].fecha = fs[i].fecha
        /\ fs[j].servicio = fs[i].servicio
        /\ \A k \in 1..(j - 1) :
              ~ (/\ fs[k].nh = fs[i].nh /\ fs[k].fecha = fs[i].fecha
                 /\ fs[k].servicio = fs[i].servicio)

OtraVersion(v) == CHOOSE w \in Versiones : w # v

InitAgg ==
    /\ \E n \in 0..MaxAislados : \E fs \in [1..n -> FichasAislado] :
          /\ registros =
                {[id |-> RegistroFicha(fs, i), hospital |-> "h1",
                  nh_hash |-> code_nh(fs[i].nh), fecha |-> fs[i].fecha,
                  edad |-> 400, sexo |-> "m", ambito |-> "a",
                  servicio |-> fs[i].servicio, tipo_muestra |-> "t"] :
                    i \in 1..n}
          /\ aislados =
                {[id |-> i, hospital |-> "h1", registro |-> RegistroFicha(fs, i),
                  microorganismo |-> "eco",
                  version_eucast |-> get_version_from_date(fs[i].fecha),
                  mecanismos |-> {}, subtipos |-> {}] : i \in 1..n}
          /\ resultados =
                {[aislado |-> i, antibiotico |-> "B",
                  interpretacion |-> fs[i].interp, cmi |-> None, halo |-> None] :
                    i \in {k \in 1..n : fs[k].interp # NULL}}
          /\ reinterpretaciones =
                {[id |-> i, aislado |-> i, antibiotico |-> "B",
                  version_eucast |->
                      OtraVersion(get_version_from_date(fs[i].fecha)),
                  interpretacion_nueva |-> fs[i].reint,
                  es_reinterpretado |-> TRUE] :
                    i \in {k \in 1..n : fs[k].reint # NULL}}
    /\ fase = "idle" /\ hospital = "h1" /\ microorganismo = "eco"
    /\ total = 0 /\ pos = 1
    /\ contadores = ContadoresIniciales
    /\ registros_cache = CacheVacia
    /\ timestamp_carga = 0 /\ procesadas = 0
    /\ anterior = FilaBase /\ uniforme = TRUE
    /\ log = << >> /\ log_previo = << >> /\ repite = FALSE
    /\ arm = ArmInicial /\ lote = LoteInicial /\ inicio = InicioVacio
    /\ InitAnalisis

\* what an aggregation leaves alone
fijasAgg ==
    <<varsCarga, reinterpretaciones, arm, lote, inicio, calculo, estratos, condicion,
      evaluacion, lectura, resolucion, deteccion>>

\* the filters every view applies before anything else: tenant, organism
\* and date window
FiltroBase(h, m, desde, hasta) ==
    {a \in aislados : /\ a.hospital = h /\ a.microorganismo = m
                      /\ RegistroDe(a).fecha >= desde
                      /\ RegistroDe(a).fecha <= hasta}

\* `if servicio: qs = qs.filter(registro__servicio...)`
FiltroServicio(ais, servicio) ==
    IF servicio = NULL THEN ais
    ELSE {a \in ais : RegistroDe(a).servicio = servicio}

\* Window(RowNumber(), partition_by nh_hash, order_by fecha asc) filtered by
\* row_num = 1: one isolate of each patient, of the earliest date; the
\* database numbers the isolates of one patient and one date as it likes,
\* so the result is any of these sets
PrimerAislado(ais) ==
    {T \in SUBSET ais :
        /\ \A a \in ais :
              Cardinality({b \in T : RegistroDe(b).nh_hash = RegistroDe(a).nh_hash}) = 1
        /\ \A b \in T : \A c \in ais :
              RegistroDe(c).nh_hash = RegistroDe(b).nh_hash
                  => RegistroDe(b).fecha <= RegistroDe(c).fecha}

Ids(ais) == {a.id : a \in ais}

Ventanas == {<<1, 1>>, <<1, 2>>, <<2, 2>>}

\* ResultadosResistenciaView.form_valid: the filters, then the window query
ExplorarResultados(desde, hasta, servicio) ==
    /\ \E T \in PrimerAislado(
                  FiltroServicio(FiltroBase("h1", "eco", desde, hasta), servicio)) :
          agregado' = [vista |-> "explorador", desde |-> desde, hasta |-> hasta,
                       servicio |-> servicio, contribuyen |-> Ids(T)]
    /\ UNCHANGED fijasAgg

\* _build_data_for_pdf: the window query over the base filters, then the
\* optional filters of the form over the isolates it kept
InformePredefinido(desde, hasta, servicio) ==
    /\ \E T \in PrimerAislado(FiltroBase("h1", "eco", desde, hasta)) :
          agregado' = [vista |-> "informe", desde |-> desde, hasta |-> hasta,
                       servicio |-> servicio,
                       contribuyen |-> Ids(FiltroServicio(T, servicio))]
    /\ UNCHANGED fijasAgg

\* the antibiotics of the tenant's profile (all are shown in reports)
AntibioticosVisibles(h) == {Perfil[h][i] : i \in DOMAIN Perfil[h]}

\* count_results for one period, unicos being the result of its window query
\* over the whole range of the analysis
CountResults(ab, ver, ini, fin, unicos) ==
    LET en_periodo == {a \in unicos : /\ RegistroDe(a).fecha >= ini
                                      /\ RegistroDe(a).fecha <= fin}
        contable(a) == /\ ab \in AntibioticosVisibles(a.hospital)
                       /\ ab \notin ResistenciaIntrinseca[a.microorganismo]
                       /\ Parent[ab] = NULL  \* considerar_variantes is False
        originales ==
            {r \in resultados :
                /\ r.antibiotico = ab /\ r.interpretacion \in SIR
                /\ \E a \in en_periodo :
                      a.id = r.aislado /\ a.version_eucast = ver /\ contable(a)}
        reinterpretados ==
            {x \in reinterpretaciones :
                /\ x.antibiotico = ab /\ x.version_eucast = ver
                /\ x.interpretacion_nueva \in SIR
                /\ \E a \in en_periodo :
                      a.id = x.aislado /\ a.version_eucast # ver /\ contable(a)}
    IN  [en_periodo |-> Ids(en_periodo),
         conteos_originales |->
            [c \in SIR |-> Cardinality({r \in originales : r.interpretacion = c})],
         conteos_reinterpretados |->
            [c \in SIR |->
                Cardinality({x \in reinterpretados : x.interpretacion_nueva = c})],
         tiene_reinterpretados |-> reinterpretados # {}]

\* the lists of periods calculate_periods may give over the dates 1..3
PeriodosPosibles ==
    {<<[inicio |-> 1, fin |-> 1], [inicio |-> 2, fin |-> 2], [inicio |-> 3, fin |-> 3]>>,
     <<[inicio |-> 1, fin |-> 1], [inicio |-> 2, fin |-> 2]>>,
     <<[inicio |-> 2, fin |-> 2], [inicio |-> 3, fin |-> 3]>>}

\* tendencias in antibiotic mode: fewer than three periods end it with a
\* warning; get_tendency_data counts each period; no counted
\* Reinterpretation in any period ends it with an error
AnalizarTendencia(periodos, ver, servicio) ==
    /\ IF Len(periodos) < 3
       THEN agregado' = [vista |-> "tendencia", periodos |-> periodos,
                         version |-> ver, servicio |-> servicio,
                         producido |-> FALSE, motivo |-> "periodos",
                         datos |-> << >>]
       ELSE \E unicos \in
                  [DOMAIN periodos ->
                      PrimerAislado(FiltroServicio(
                          FiltroBase("h1", "eco", periodos[1].inicio,
                                     periodos[Len(periodos)].fin), servicio))] :
              LET datos == [i \in DOMAIN periodos |->
                              CountResults("B", ver, periodos[i].inicio,
                                           periodos[i].fin, unicos[i])]
                  sin_reinterpretados ==
                      \A i \in DOMAIN periodos : ~ datos[i].tiene_reinterpretados
              IN  agregado' = [vista |-> "tendencia", periodos |-> periodos,
                               version |-> ver, servicio |-> servicio,
                               producido |-> ~ sin_reinterpretados,
                               motivo |-> IF sin_reinterpretados
                                          THEN "reinterpretaciones" ELSE "",
                               datos |-> datos]
    /\ UNCHANGED fijasAgg

NextAgg ==
    \/ \E v \in Ventanas, servicio \in ServiciosInforme \cup {NULL} :
          ExplorarResultados(v[1], v[2], servicio)
    \/ \E v \in Ventanas, servicio \in ServiciosInforme \cup {NULL} :
          InformePredefinido(v[1], v[2], servicio)
    \/ \E periodos \in PeriodosPosibles, ver \in Versiones,
          servicio \in ServiciosInforme \cup {NULL} :
          AnalizarTendencia(periodos, ver, servicio)

SpecAgg == InitAgg /\ [][NextAgg]_vars

\* the isolates that match the window and the filter of the last aggregation
Coincidentes ==
    IF agregado.vista = "tendencia"
    THEN FiltroServicio(
             FiltroBase("h1", "eco", agregado.periodos[1].inicio,
                        agregado.periodos[Len(agregado.periodos)].fin),
             agregado.servicio)
    ELSE FiltroServicio(FiltroBase("h1", "eco", agregado.desde, agregado.hasta),
                        agregado.servicio)

\* the isolates that contribute to the counts of the last aggregation
Contribuyen ==
    IF agregado.vista = "tendencia"
    THEN UNION {agregado.datos[i].en_periodo : i \in DOMAIN agregado.datos}
    ELSE agregado.contribuyen

\* C12: in every aggregation, each patient with at least one isolate that
\* matches the window and the filters contributes exactly one isolate, and
\* that isolate is the earliest of the patient's matching isolates.
C12_PrimerAisladoPorPaciente ==
    (agregado.vista \in {"explorador", "informe"}
        \/ (agregado.vista = "tendencia" /\ agregado.motivo # "periodos")) =>
        \A a \in Coincidentes :
            LET suyos == {b \in Coincidentes :
                             RegistroDe(b).nh_hash = RegistroDe(a).nh_hash}
                cuentan == {b \in suyos : b.id \in Contribuyen}
            IN  /\ Cardinality(cuentan) = 1
                /\ \A b \in cuentan : \A c \in suyos :
                      RegistroDe(b).fecha <= RegistroDe(c).fecha

\* the isolates of period i of the last trend analysis that have an S, I or
\* R Result for B
ConResultado(i) ==
    {a \in aislados :
        /\ a.id \in agregado.datos[i].en_periodo
        /\ \E r \in resultados :
              /\ r.aislado = a.id /\ r.antibiotico = "B"
              /\ r.interpretacion \in SIR}

Suma(conteos) == conteos["S"] + conteos["I"] + conteos["R"]

\* C13: in a trend analysis at a target version, each deduplicated isolate
\* with an S, I or R Result is counted once in its period: among the
\* originals when its stored version is the target, among the
\* reinterpreted when it differs and it has a Reinterpretation at the
\* target; and when every such isolate is stored at the target version the
\* analysis is produced without any Reinterpretation.
C13_ConteoPorVersion ==
    (agregado.vista = "tendencia" /\ agregado.motivo # "periodos") =>
        /\ \A i \in DOMAIN agregado.datos :
              /\ Suma(agregado.datos[i].conteos_originales) =
                    Cardinality({a \in ConResultado(i) :
                                    a.version_eucast = agregado.version})
              /\ Suma(agregado.datos[i].conteos_reinterpretados) =
                    Cardinality({a \in ConResultado(i) :
                        /\ a.version_eucast # agregado.version
                        /\ \E x \in reinterpretaciones :
                              /\ x.aislado = a.id /\ x.antibiotico = "B"
                              /\ x.version_eucast = agregado.version
                              /\ x.interpretacion_nueva \in SIR})
        /\ (/\ \E i \in DOMAIN agregado.datos : ConResultado(i) # {}
            /\ \A i \in DOMAIN agregado.datos : \A a \in ConResultado(i) :
                  a.version_eucast = agregado.version)
              => agregado.producido

(***************************************************************************)
(* Stratified report: the part of _build_data_for_pdf that splits the      *)
(* deduplicated, filtered isolates by scope, service, sex, age group and   *)
(* sample category.  A stratification is given by the number of isolates   *)
(* of each of its values; for the sample categories ignorar_minimo is the  *)
(* flag of CategoriaMuestraHospital.  Every isolate has Results, so a      *)
(* group that is kept has rows to report.                                  *)
(***************************************************************************)
MinimoAislados == 30

Campos == {"ambito", "servicio", "sexo", "muestra", "grupo_edad"}
ValoresCampo == {"x", "y"}
Tamanos == {0, 29, 30, 31}

\* dict(qs.values(campo).annotate(total=Count("id"))): the values that have
\* isolates, with their number
ConteosPorValor(conteos) ==
    [k \in {v \in DOMAIN conteos : conteos[v] > 0} |-> conteos[k]]

\* [k for k, v in counts.items() if v >= 30]
ValoresValidos(counts) == {k \in DOMAIN counts : counts[k] >= MinimoAislados}

\* _filter_by_values: the isolates whose value is in the list, none when
\* the list is empty, given as their numbers by value
FilterByValues(counts, valores) == [k \in valores |-> counts[k]]

\* _get_results_by_group: the groups of the queryset with 30 isolates or more
GetResultsByGroup(counts) == {k \in DOMAIN counts : counts[k] >= MinimoAislados}

InitEstratos ==
    /\ EstadoCargaInicial /\ reinterpretaciones = {} /\ arm = ArmInicial
    /\ lote = LoteInicial /\ inicio = InicioVacio
    /\ Reposo(TRUE, FALSE, TRUE, TRUE, TRUE, TRUE, TRUE) /\ CalculoEnReposo
    /\ \E campo \in Campos, conteos \in [ValoresCampo -> Tamanos],
          ignorar \in [ValoresCampo -> BOOLEAN] :
          /\ campo # "muestra" => \A v \in ValoresCampo : ~ ignorar[v]
          /\ estratos = [campo |-> campo, conteos |-> conteos,
                         ignorar_minimo |-> ignorar, informados |-> {},
                         hecho |-> FALSE]

EstratificarInforme ==
    /\ ~ estratos.hecho
    /\ LET counts == ConteosPorValor(estratos.conteos)
           qs_campo == FilterByValues(counts, ValoresValidos(counts))
       IN  estratos' = [estratos EXCEPT !.informados = GetResultsByGroup(qs_campo),
                                        !.hecho = TRUE]
    /\ UNCHANGED <<varsCarga, reinterpretaciones, arm, lote, inicio, calculo, agregado,
                   condicion, evaluacion, lectura, resolucion, deteccion>>

NextEstratos == EstratificarInforme

SpecEstratos == InitEstratos /\ [][NextEstratos]_vars

\* C14: a stratum with fewer than 30 isolates is omitted from the
\* stratified report, except that a stratum of a sample category whose
\* ignorar_minimo is set is reported whatever its size.
C14_MinimoPorEstrato ==
    estratos.hecho =>
        \A v \in ValoresCampo :
            /\ (estratos.conteos[v] < MinimoAislados /\ ~ estratos.ignorar_minimo[v])
                  => v \notin estratos.informados
            /\ (/\ estratos.campo = "muestra" /\ estratos.ignorar_minimo[v]
                /\ estratos.conteos[v] > 0)
                  => v \in estratos.informados

(***************************************************************************)
(* CondicionTaxonReglaInterpretacion.apply_to as a function of the         *)
(* condition (scope, include set, exclude set) and of the organism.        *)
(***************************************************************************)
Scopes == {"grupo", "familia", "genero", "especie", "personalizado"}

InitTaxon ==
    /\ EstadoCargaInicial /\ reinterpretaciones = {} /\ arm = ArmInicial
    /\ lote = LoteInicial /\ inicio = InicioVacio
    /\ Reposo(TRUE, TRUE, FALSE, TRUE, TRUE, TRUE, TRUE) /\ CalculoEnReposo
    /\ \E scope \in Scopes, incluye \in SUBSET Especies,
          excluye \in SUBSET Especies, m \in Especies :
          condicion = [scope |-> scope, incluye |-> incluye, excluye |-> excluye,
                       m |-> m, aplica |-> FALSE, hecho |-> FALSE]

EvaluarCondicion ==
    /\ ~ condicion.hecho
    /\ condicion' = [condicion EXCEPT !.aplica = CondicionAplica(condicion, condicion.m),
                                      !.hecho = TRUE]
    /\ UNCHANGED <<varsCarga, reinterpretaciones, arm, lote, inicio, calculo, agregado,
                   estratos, evaluacion, lectura, resolucion, deteccion>>

NextTaxon == EvaluarCondicion

SpecTaxon == InitTaxon /\ [][NextTaxon]_vars

\* C15: a condition of scope "grupo" with a non-empty include set applies to
\* an organism if and only if the EUCAST group of the organism is the group
\* of some member of the include set and the organism is not in the exclude
\* set.
C15_InclusionPorGrupo ==
    (condicion.hecho /\ condicion.scope = "grupo" /\ condicion.incluye # {}) =>
        (condicion.aplica <=>
            /\ \E inc \in condicion.incluye :
                  Taxon[inc].grupo = Taxon[condicion.m].grupo
            /\ condicion.m \notin condicion.excluye)

\* C16: a condition never applies to an organism whose species, genus,
\* family or EUCAST group is that of a member of its exclude set, whatever
\* its scope and its include set.
C16_ExclusionJerarquica ==
    (/\ condicion.hecho
     /\ \E exc \in condicion.excluye :
           \/ Taxon[exc].nombre = Taxon[condicion.m].nombre
           \/ Taxon[exc].genero = Taxon[condicion.m].genero
           \/ Taxon[exc].familia = Taxon[condicion.m].familia
           \/ Taxon[exc].grupo = Taxon[condicion.m].grupo)
        => ~ condicion.aplica

(***************************************************************************)
(* ReglaInterpretacion.apply_to for a rule that lists taxon conditions.    *)
(* The rule has no group, age, sex or sample restriction; condiciones is   *)
(* the list in the order condiciones_taxonomicas.all() returns it, which   *)
(* the model of the relation does not fix.                                 *)
(***************************************************************************)
MaxCondiciones == 2

CondicionesCatalogo ==
    [scope : Scopes, incluye : {{}, {"eco"}, {"kpn"}},
     excluye : {{}, {"eco"}, {"pmi"}}]

ReglaCon(conds) ==
    [Regla("B", "v2", Some(1000), Some(4000)) EXCEPT
        !.grupo_eucast = NULL, !.condiciones = conds]

InitRegla ==
    /\ EstadoCargaInicial /\ reinterpretaciones = {} /\ arm = ArmInicial
    /\ lote = LoteInicial /\ inicio = InicioVacio
    /\ Reposo(TRUE, TRUE, TRUE, FALSE, TRUE, TRUE, TRUE) /\ CalculoEnReposo
    /\ \E n \in 1..MaxCondiciones : \E conds \in [1..n -> CondicionesCatalogo] :
          \E m \in Especies :
              evaluacion = [condiciones |-> conds, m |-> m, aplica |-> FALSE,
                            hecho |-> FALSE]

EvaluarRegla ==
    /\ ~ evaluacion.hecho
    /\ evaluacion' =
          [evaluacion EXCEPT
              !.aplica = ReglaAplica(ReglaCon(evaluacion.condiciones), "B",
                                     evaluacion.m, Taxon[evaluacion.m].grupo,
                                     Some(400), NULL, NULL, "v2"),
              !.hecho = TRUE]
    /\ UNCHANGED <<varsCarga, reinterpretaciones, arm, lote, inicio, calculo, agregado,
                   estratos, condicion, lectura, resolucion, deteccion>>

NextRegla == EvaluarRegla

SpecRegla == InitRegla /\ [][NextRegla]_vars

Invertida(seq) == [i \in DOMAIN seq |-> seq[Len(seq) + 1 - i]]

\* C17: a rule that lists taxon conditions applies to an organism only if
\* one of its conditions returns true for the organism and the organism is
\* in the exclude set of none of them, and whether it applies does not
\* depend on the order of the conditions.
C17_CondicionesSinOrden ==
    evaluacion.hecho =>
        /\ evaluacion.aplica =>
              /\ \E i \in DOMAIN evaluacion.condiciones :
                    CondicionAplica(evaluacion.condiciones[i], evaluacion.m)
              /\ \A i \in DOMAIN evaluacion.condiciones :
                    evaluacion.m \notin evaluacion.condiciones[i].excluye
        /\ evaluacion.aplica =
              ReglaAplica(ReglaCon(Invertida(evaluacion.condiciones)), "B",
                          evaluacion.m, Taxon[evaluacion.m].grupo,
                          Some(400), NULL, NULL, "v2")

(***************************************************************************)
(* ReglaInterpretacion.interpret as a function of the four breakpoints of  *)
(* the rule and of the MIC and zone diameter read, each of them possibly   *)
(* null.  MICs are in thousandths of mg/L, diameters in mm.                *)
(***************************************************************************)
CortesCmi == {None, Some(1000), Some(4000)}
CortesHalo == {None, Some(15), Some(20)}
ValoresCmi == {None, Some(500), Some(1000), Some(2000), Some(8000), Some(16000)}
ValoresHalo == {None, Some(10), Some(15), Some(18), Some(20), Some(25)}

InitInterpret ==
    /\ EstadoCargaInicial /\ reinterpretaciones = {} /\ arm = ArmInicial
    /\ lote = LoteInicial /\ inicio = InicioVacio
    /\ Reposo(TRUE, TRUE, TRUE, TRUE, FALSE, TRUE, TRUE) /\ CalculoEnReposo
    /\ \E s \in CortesCmi, r \in CortesCmi, sh \in CortesHalo, rh \in CortesHalo,
          cmi \in ValoresCmi, halo \in ValoresHalo :
          lectura = [s_cmi_max |-> s, r_cmi_min |-> r, s_halo_min |-> sh,
                     r_halo_max |-> rh, cmi |-> cmi, halo |-> halo,
                     salida |-> NULL, hecho |-> FALSE]

Interpretar ==
    /\ ~ lectura.hecho
    /\ lectura' = [lectura EXCEPT !.salida = Interpret(lectura, lectura.cmi,
                                                       lectura.halo),
                                  !.hecho = TRUE]
    /\ UNCHANGED <<varsCarga, reinterpretaciones, arm, lote, inicio, calculo, agregado,
                   estratos, condicion, evaluacion, resolucion, deteccion>>

NextInterpret == Interpretar

SpecInterpret == InitInterpret /\ [][NextInterpret]_vars

\* C18: whatever breakpoints of the rule are null and whatever MIC and
\* diameter are given, null or not, interpret ends with one of S, I, R, ND.
C18_InterpretTotal ==
    lectura.hecho => lectura.salida \in {"S", "I", "R", "ND"}

\* a MIC above a lone S breakpoint, read by a rule without R breakpoint
C18_Witness ==
    /\ lectura.hecho /\ lectura.cmi # None
    /\ lectura.s_cmi_max # None /\ lectura.r_cmi_min = None
    /\ Val(lectura.cmi) > Val(lectura.s_cmi_max)
    /\ lectura.salida = "ND"

(***************************************************************************)
(* Demographic resolution of one cell, character by character.  A text is  *)
(* a sequence of characters; "a" and "A" are a letter in lower and upper   *)
(* case, "a'" and "A'" the same letter with an accent, " " a blank.  The   *)
(* cache of the rows above is this one for names that normalisation leaves *)
(* as they are.                                                            *)
(***************************************************************************)
MaxTexto == 2

Alfabeto == {"a", "A", "a'", "A'", " "}

\* str.lower on one character
Lower(c) == IF c = "A" THEN "a" ELSE IF c = "A'" THEN "a'" ELSE c

\* unicodedata.normalize("NFD", c) without its characters of category Mn
SinMarca(c) == IF c = "a'" THEN "a" ELSE IF c = "A'" THEN "A" ELSE c

RECURSIVE lstrip(_)
lstrip(t) == IF t # << >> /\ Head(t) = " " THEN lstrip(Tail(t)) ELSE t

RECURSIVE rstrip(_)
rstrip(t) ==
    IF t # << >> /\ t[Len(t)] = " " THEN rstrip(SubSeq(t, 1, Len(t) - 1)) ELSE t

\* value.strip().lower()
strip_lower(t) ==
    LET u == rstrip(lstrip(t)) IN [i \in DOMAIN u |-> Lower(u[i])]

\* the key build_alias_cache makes of a name or alias
clave_alias(t) ==
    LET u == strip_lower(t) IN [i \in DOMAIN u |-> SinMarca(u[i])]

\* get_str on the cell of the row
get_str(t) == strip_lower(t)

\* the names of an entity in the order build_alias_cache reads them
NombresDe(e) == <<e.nombre>> \o e.alias

\* build_alias_cache over the entities of one kind, as an ordered dict: the
\* first entry of a key is kept
RECURSIVE CacheDeNombres(_, _, _, _)
CacheDeNombres(cache, entidades, i, j) ==
    IF i > Len(entidades) THEN cache
    ELSE IF j > Len(NombresDe(entidades[i]))
    THEN CacheDeNombres(cache, entidades, i + 1, 1)
    ELSE LET k == clave_alias(NombresDe(entidades[i])[j])
         IN  CacheDeNombres(
                 IF k # << >> /\ ~ DictHas(cache, k)
                 THEN DictSet(cache, k, entidades[i].id) ELSE cache,
                 entidades, i, j + 1)

\* get_from_cache on a cache with text keys
GetFromCache(cache, value) ==
    IF value = << >> THEN None
    ELSE LET key == strip_lower(value)
         IN  IF DictHas(cache, key) THEN Some(DictVal(cache, key)) ELSE None

RECURSIVE Textos(_)
Textos(n) ==
    IF n = 0 THEN {<< >>}
    ELSE Textos(n - 1) \cup
         {Append(t, c) : t \in {u \in Textos(n - 1) : Len(u) = n - 1},
                         c \in Alfabeto}

\* the entities of one kind of a tenant: one with a free name and at most
\* one alias, one named "a"
InitAlias ==
    /\ EstadoCargaInicial /\ reinterpretaciones = {} /\ arm = ArmInicial
    /\ lote = LoteInicial /\ inicio = InicioVacio
    /\ Reposo(TRUE, TRUE, TRUE, TRUE, TRUE, FALSE, TRUE) /\ CalculoEnReposo
    /\ \E nombre \in Textos(MaxTexto) \ {<< >>}, alias \in Textos(1),
          celda \in Textos(MaxTexto) :
          resolucion =
              [entidades |->
                  << [id |-> "x", nombre |-> nombre,
                      alias |-> IF alias = << >> THEN << >> ELSE <<alias>>],
                     [id |-> "y", nombre |-> <<"a">>, alias |-> << >>] >>,
               celda |-> celda, salida |-> None, hecho |-> FALSE]

\* _get_demographic_data for one of sex, scope, service or sample type
ResolverCelda ==
    /\ ~ resolucion.hecho
    /\ resolucion' =
          [resolucion EXCEPT
              !.salida = GetFromCache(
                             CacheDeNombres(<< >>, resolucion.entidades, 1, 1),
                             get_str(resolucion.celda)),
              !.hecho = TRUE]
    /\ UNCHANGED <<varsCarga, reinterpretaciones, arm, lote, inicio, calculo, agregado,
                   estratos, condicion, evaluacion, lectura, deteccion>>

NextAlias == ResolverCelda

SpecAlias == InitAlias /\ [][NextAlias]_vars

\* a text without surrounding blanks, capitals and accents
Normalizado(t) == clave_alias(t)

\* C19: a cell resolves to an entity of the tenant one of whose names or
\* aliases equals the cell once case, surrounding blanks and accents are
\* normalised on both, and it resolves whenever there is such an entity; so
\* an accented cell resolves to the entity registered under the same
\* accented alias.
C19_ResolucionNormalizada ==
    resolucion.hecho =>
        LET coinciden ==
                {i \in DOMAIN resolucion.entidades :
                    /\ Normalizado(resolucion.celda) # << >>
                    /\ \E j \in DOMAIN NombresDe(resolucion.entidades[i]) :
                          Normalizado(NombresDe(resolucion.entidades[i])[j])
                              = Normalizado(resolucion.celda)}
        IN  IF coinciden = {} THEN resolucion.salida = None
            ELSE \E i \in coinciden :
                    resolucion.salida = Some(resolucion.entidades[i].id)

(***************************************************************************)
(* detect_arm on one row.  The row has a column for the mechanism and a    *)
(* column for the subtype, each absent (NULL) or holding a value, and an   *)
(* observations cell made of phrases (none when no column is mapped); a   *)
(* phrase is the set of its words.  The tenant has an overlay for the      *)
(* mechanism, for the subtype, for both or for none.  A text holds an      *)
(* alias or a negation when one of its words does.                         *)
(***************************************************************************)
MaxFrases == 1

\* SubtipoMecanismoResistencia.mecanismo
MecanismoDeSubtipo == [k \in Subtipos |-> "blee"]

\* MecResValoresPositivosHospital aliases of the tenant
ValoresPositivos == {"pos"}
ValoresColumna == {NULL, "pos", "neg"}

NEGACIONES == {"no"}
Palabras == {"blee", "ctxm", "no", "nosocomial"}

\* `x in w` for two words of the vocabulary
DentroDe(x, w) == x = w \/ (x = "no" /\ w = "nosocomial")

\* `x in frase_norm`
Contiene(frase, x) == \E w \in frase : DentroDe(x, w)

Negada(frase) == \E neg \in NEGACIONES : Contiene(frase, neg)

\* the mechanism of a detected subtype is added when the tenant has its
\* overlay: mec_map.get(base_mec_id), if mec_hosp
PadresDe(subs, mecanismos) ==
    {MecanismoDeSubtipo[k] : k \in subs} \cap mecanismos

\* the third pass of detect_arm over the phrases from i on
RECURSIVE DetectarEnFrases(_, _, _, _, _)
DetectarEnFrases(acc, frases, i, mecanismos, subtipos) ==
    IF i > Len(frases) THEN acc
    ELSE LET frase == frases[i]
             mecs == {m \in mecanismos : Contiene(frase, m) /\ ~ Negada(frase)}
             subs == {k \in subtipos : Contiene(frase, k) /\ ~ Negada(frase)}
         IN  DetectarEnFrases(
                 [mecanismos |-> acc.mecanismos \cup mecs
                                 \cup PadresDe(subs, mecanismos),
                  subtipos |-> acc.subtipos \cup subs],
                 frases, i + 1, mecanismos, subtipos)

\* detect_arm: columns of mechanisms, columns of subtypes, observations
\* (no phrase when the observations column is not mapped)
DetectArm(fila, mecanismos, subtipos, pos_vals) ==
    LET por_columna ==
            {m \in mecanismos : fila.columna[m] # NULL /\ fila.columna[m] \in pos_vals}
        sub_columna ==
            {k \in subtipos : fila.columna[k] # NULL /\ fila.columna[k] \in pos_vals}
        en_frases ==
            DetectarEnFrases([mecanismos |-> {}, subtipos |-> {}],
                             fila.observaciones, 1, mecanismos, subtipos)
    IN  [mecanismos |-> por_columna \cup PadresDe(sub_columna, mecanismos)
                        \cup en_frases.mecanismos,
         subtipos |-> sub_columna \cup en_frases.subtipos]

Observaciones ==
    UNION {[1..n -> SUBSET Palabras] : n \in 0..MaxFrases}

InitDeteccion ==
    /\ EstadoCargaInicial /\ reinterpretaciones = {} /\ arm = ArmInicial
    /\ lote = LoteInicial /\ inicio = InicioVacio
    /\ Reposo(TRUE, TRUE, TRUE, TRUE, TRUE, TRUE, FALSE) /\ CalculoEnReposo
    /\ \E columna \in [Mecanismos \cup Subtipos -> ValoresColumna],
          obs \in Observaciones, mecs \in SUBSET Mecanismos,
          subs \in SUBSET Subtipos :
          deteccion = [fila |-> [columna |-> columna, observaciones |-> obs],
                       catalogo_mecanismos |-> mecs, catalogo_subtipos |-> subs,
                       mecanismos |-> {}, subtipos |-> {}, hecho |-> FALSE]

DetectarMecanismos ==
    /\ ~ deteccion.hecho
    /\ LET d == DetectArm(deteccion.fila, deteccion.catalogo_mecanismos,
                          deteccion.catalogo_subtipos, ValoresPositivos)
       IN  deteccion' = [deteccion EXCEPT !.mecanismos = d.mecanismos,
                                          !.subtipos = d.subtipos,
                                          !.hecho = TRUE]
    /\ UNCHANGED <<varsCarga, reinterpretaciones, arm, lote, inicio, calculo, agregado,
                   estratos, condicion, evaluacion, lectura, resolucion>>

NextDeteccion == DetectarMecanismos

SpecDeteccion == InitDeteccion /\ [][NextDeteccion]_vars

\* C20 as stated: whenever detection reports a subtype, by column or by
\* free text, the mechanisms it reports hold the mechanism of that subtype.
C20_SubtipoConMecanismo ==
    deteccion.hecho =>
        \A k \in deteccion.subtipos :
            MecanismoDeSubtipo[k] \in deteccion.mecanismos

\* C29: in the free-text pass negations count as whole words: a phrase
\* that has an alias of a mechanism or of a subtype of the tenant among its
\* words, and no negation among its words (a negation inside a longer word
\* does not count), yields that mechanism or subtype.
C29_NegacionPalabraEntera ==
    deteccion.hecho =>
        \A i \in DOMAIN deteccion.fila.observaciones :
            LET frase == deteccion.fila.observaciones[i]
            IN  frase \cap NEGACIONES = {} =>
                    /\ (frase \cap deteccion.catalogo_mecanismos)
                           \subseteq deteccion.mecanismos
                    /\ (frase \cap deteccion.catalogo_subtipos)
                           \subseteq deteccion.subtipos

\* C28: a rule with both MIC breakpoints set and s_cmi_max <= 2 * r_cmi_min
\* classifies every non-null MIC, the boundary 2 * r_cmi_min included, as
\* S, I or R and never as ND.
C28_CmiSinHueco ==
    ( /\ lectura.hecho
      /\ lectura.s_cmi_max # None /\ lectura.r_cmi_min # None
      /\ Val(lectura.s_cmi_max) <= 2 * Val(lectura.r_cmi_min)
      /\ lectura.cmi # None )
        => lectura.salida \in {"S", "I", "R"}

\* C26: a step of a reinterpretation run at version V leaves the
\* Reinterpretations of every other version as they were: none is created,
\* changed or deleted.
C26_OtrasVersionesIntactas ==
    [][{x \in reinterpretaciones : x.version_eucast # lote'.version}
        = {x \in reinterpretaciones' : x.version_eucast # lote'.version}]_vars

\* Microorganismo.lista_ids_resistencia_intrinseca: the intrinsic bases and
\* their variants
lista_ids_resistencia_intrinseca(m) ==
    {ab \in Antibioticos :
        ab \in ResistenciaIntrinseca[m] \/ Parent[ab] \in ResistenciaIntrinseca[m]}

\* C30: every Reinterpretation of a Result whose antibiotic is in the
\* intrinsic-resistance set of the isolate's organism (a base or a variant
\* of an intrinsic base) has interpretacion_nueva R, at whatever version.
C30_IntrinsecaSeMantiene ==
    \A x \in reinterpretaciones : \A a \in aislados :
        (/\ a.id = x.aislado
         /\ x.antibiotico \in lista_ids_resistencia_intrinseca(a.microorganismo))
            => x.interpretacion_nueva = "R"

(***************************************************************************)
(* The value parsers of CRUD/utils.py on one cell.  A cell text is an      *)
(* optional sign ("=", "<", "<=", ">", ">="), a number token and an        *)
(* optional "/denominator", as in "<=0.5", ">16" or "4/76"; the number     *)
(* token is a finite decimal, "inf", "nan" or a word.  Finite numbers are  *)
(* in thousandths.                                                         *)
(***************************************************************************)
Prefijos == {"", "=", "<", "<=", ">", ">="}
NumerosFinitos ==
    {-800000000, 500, 16000, 600000, 1000000, 1024000, 2000000, 27851000}
Numeros == {Num(m) : m \in NumerosFinitos} \cup {Inf, NaN, NoNumero}
Celdas == [prefijo : Prefijos, numero : Numeros, den : BOOLEAN]
CeldasBreves ==
    {[prefijo |-> "", numero |-> n, den |-> FALSE] : n \in {Num(16000), Inf, NoNumero}}
        \cup {[prefijo |-> "<", numero |-> Num(16000), den |-> FALSE]}

\* float(text) for a bare token: raises ValueError for a word
EsFloat(numero) == numero.clase # "texto"

\* float * 2
Doble(n) == IF n.clase = "finito" THEN Num(2 * n.milli) ELSE n

\* the days of datetime(1899, 12, 30) + timedelta(days): year and month
SerialMin == -693593
SerialMax == 2958465
AnioMes(serial) ==
    LET z == serial - 25569 + 719468
        era == z \div 146097
        doe == z - era * 146097
        yoe == (doe - doe \div 1460 + doe \div 36524 - doe \div 146096) \div 365
        doy == doe - (365 * yoe + yoe \div 4 - yoe \div 100)
        mp == (5 * doy + 2) \div 153
        m == IF mp < 10 THEN mp + 3 ELSE mp - 9
    IN  [anio |-> yoe + era * 400 + (IF m <= 2 THEN 1 ELSE 0), mes |-> m]

\* int(valor_float): truncation towards zero
Truncar(milli) == IF milli >= 0 THEN milli \div 1000 ELSE - ((- milli) \div 1000)

CmiMaximaMilli == 1024000

\* parse_mic where float(valor_str) succeeded at once
ParseMicNumero(n) ==
    IF n.clase # "finito" THEN Lanza
    ELSE LET dias == Truncar(n.milli)
         IN  IF dias < SerialMin \/ dias > SerialMax THEN Lanza
             ELSE IF AnioMes(dias).anio >= 1950 /\ AnioMes(dias).anio <= 1980
             THEN Valor(Num(1000 * AnioMes(dias).mes))
             ELSE IF n.milli > CmiMaximaMilli THEN Nulo
             ELSE Valor(n)

\* parse_mic
ParseMic(t) ==
    IF t.prefijo = "" /\ ~ t.den /\ EsFloat(t.numero)
    THEN ParseMicNumero(t.numero)
    ELSE IF ~ EsFloat(t.numero) THEN Nulo
    ELSE IF t.prefijo \in {"", "="} THEN Valor(t.numero)
    ELSE IF t.prefijo \in {"<", "<="} THEN Valor(t.numero)
    ELSE Valor(Doble(t.numero))

\* parse_halo: no branch for "/"
ParseHalo(t) ==
    IF t.den \/ ~ EsFloat(t.numero) THEN Nulo ELSE Valor(t.numero)

\* parse_age of a text cell
ParseAge(t) ==
    IF t.prefijo = "" /\ ~ t.den /\ EsFloat(t.numero) THEN Valor(t.numero) ELSE Nulo

\* CargarAntibiogramaView._parse_mic_and_halo: one try around both parsers
ParseMicAndHalo(cmi_valor, halo_valor) ==
    LET c == IF cmi_valor = None THEN Nulo ELSE ParseMic(Val(cmi_valor))
        h == IF halo_valor = None THEN Nulo ELSE ParseHalo(Val(halo_valor))
    IN  IF c.estado = "raise" THEN [cmi |-> Nulo, halo |-> Nulo]
        ELSE [cmi |-> c, halo |-> h]

InitParsers ==
    /\ EstadoCargaInicial /\ reinterpretaciones = {} /\ arm = ArmInicial
    /\ lote = LoteInicial /\ inicio = InicioVacio
    /\ Reposo(TRUE, TRUE, TRUE, TRUE, TRUE, TRUE, TRUE)
    /\ tendencia = TendenciaInicial
    /\ \E c \in Celdas, h \in {None} \cup {Some(t) : t \in CeldasBreves},
          e \in CeldasBreves :
          analizado = [AnalizadoInicial EXCEPT !.cmi = Some(c), !.halo = h,
                                               !.edad = Some(e)]

fijasParsers == <<varsCarga, reinterpretaciones, arm, lote, inicio, agregado,
                  estratos, condicion, evaluacion, lectura, resolucion, deteccion,
                  tendencia>>

\* a direct call of parse_mic on the MIC cell
LlamarParseMic ==
    /\ ~ analizado.hecho
    /\ analizado' = [analizado EXCEPT !.parser = "parse_mic",
                         !.salida.cmi = ParseMic(Val(analizado.cmi)),
                         !.hecho = TRUE]
    /\ UNCHANGED fijasParsers

LlamarParseHalo ==
    /\ ~ analizado.hecho /\ analizado.halo # None
    /\ analizado' = [analizado EXCEPT !.parser = "parse_halo",
                         !.salida.halo = ParseHalo(Val(analizado.halo)),
                         !.hecho = TRUE]
    /\ UNCHANGED fijasParsers

LlamarParseAge ==
    /\ ~ analizado.hecho
    /\ analizado' = [analizado EXCEPT !.parser = "parse_age",
                         !.salida.edad = ParseAge(Val(analizado.edad)),
                         !.hecho = TRUE]
    /\ UNCHANGED fijasParsers

LlamarParseMicAndHalo ==
    /\ ~ analizado.hecho
    /\ LET r == ParseMicAndHalo(analizado.cmi, analizado.halo)
       IN  analizado' = [analizado EXCEPT !.parser = "_parse_mic_and_halo",
                             !.salida.cmi = r.cmi, !.salida.halo = r.halo,
                             !.hecho = TRUE]
    /\ UNCHANGED fijasParsers

NextParsers ==
    \/ LlamarParseMic
    \/ LlamarParseHalo
    \/ LlamarParseAge
    \/ LlamarParseMicAndHalo

SpecParsers == InitParsers /\ [][NextParsers]_vars

\* C21: no call of a value parser ends with an exception, and a MIC text
\* that is malformed, non-finite or a bare number above 1024 outside the
\* window of the spreadsheet dates gives null, as a non-finite halo or age
\* does.
C21_ParsersNoLanzan ==
    analizado.hecho =>
        /\ analizado.salida.cmi.estado # "raise"
        /\ analizado.salida.halo.estado # "raise"
        /\ analizado.salida.edad.estado # "raise"
        /\ analizado.parser = "parse_mic" =>
              LET t == Val(analizado.cmi)
              IN  (\/ t.numero.clase # "finito"
                   \/ (/\ t.prefijo = "" /\ ~ t.den
                       /\ t.numero.milli > CmiMaximaMilli
                       /\ Truncar(t.numero.milli) > 29586))
                      => analizado.salida.cmi.estado = "null"
        /\ (analizado.parser = "parse_halo"
                /\ Val(analizado.halo).numero.clase # "finito")
              => analizado.salida.halo.estado = "null"
        /\ (analizado.parser = "parse_age"
                /\ Val(analizado.edad).numero.clase # "finito")
              => analizado.salida.edad.estado = "null"

\* C27: every MIC that parse_mic returns fits the cmi field of
\* ResultadoAntibiotico (finite, at most 999.999), so that the loop of
\* _create_isolate stores a Result with it without failing.
C27_CmiAlmacenable ==
    (/\ analizado.hecho /\ analizado.parser = "parse_mic"
     /\ analizado.salida.cmi.estado = "valor") =>
        /\ analizado.salida.cmi.num.clase = "finito"
        /\ ~ CreateResultados({}, 1,
                <<<<"B", Tupla("S", Some(analizado.salida.cmi.num.milli), None)>>>>,
                1, {}).fallo

\* C24: the persistence of a row is all or nothing: the processing of a row
\* that is counted as an error leaves the Isolates and the Results of the
\* store as they were before the row.
C24_FilaTodoONada ==
    [][(/\ fase = "filas" /\ Len(log') = Len(log) + 1
        /\ log'[Len(log')].resultado = "error")
          => aislados' = aislados /\ resultados' = resultados]_vars

\* C25: a step of a load run by a tenant keeps, unchanged, every Record,
\* Isolate and Result of the other tenants.
C25_OtrosHospitalesIntactos ==
    [][(fase = "filas" \/ fase' = "filas") =>
          /\ {r \in registros : r.hospital # hospital'} \subseteq registros'
          /\ {a \in aislados : a.hospital # hospital'} \subseteq aislados'
          /\ {x \in resultados :
                \E a \in aislados : a.id = x.aislado /\ a.hospital # hospital'}
                \subseteq resultados']_vars

(***************************************************************************)
(* Trend models (Tendencias/views.py): the rolling-origin cross-validation *)
(* and build_regression_analysis over a DataFrame of n periods.  The       *)
(* numbers fitted are left out: a fit either succeeds or raises, and what  *)
(* is kept of a fold is whether its errors are numbers or NaN.             *)
(***************************************************************************)
MaxPeriodos == 21

\* test_window and min_train for n periods
VentanaTest(n) == IF n <= 10 THEN 1 ELSE IF n <= 20 THEN 2 ELSE 3
MinTrain(n) == IF n <= 10 THEN 3 ELSE IF n <= 20 THEN 5 ELSE 7
MinTrainGam == 5
MinPeriodos == 3

\* num_folds = n - min_train - test_window + 1; the folds are 0 .. num_folds - 1
NumFolds(n) == n - MinTrain(n) - VentanaTest(n) + 1
Folds(n) == 0 .. (NumFolds(n) - 1)

\* get_metrics over validos errors that are not NaN
GetMetrics(validos, test_window) ==
    IF validos = 0 THEN ErrorModelo
    ELSE LET num_folds == IF validos \div test_window < 1 THEN 1
                          ELSE validos \div test_window
         IN  [error |-> FALSE, num_folds_validos |-> num_folds,
              num_folds_total |-> num_folds]

\* foward_chaining_expanding_window_cv; falla_lineal are the folds whose
\* linear fit raises, falla_gam those where every lambda fails in the
\* selection, falla_gam_final those whose final GAM fit raises
CrossValidation(n, falla_lineal, falla_gam, falla_gam_final) ==
    IF n < MinTrain(n) + VentanaTest(n)
    THEN [lineal |-> ErrorModelo, gam |-> ErrorModelo]
    ELSE LET w == VentanaTest(n)
             lineal == GetMetrics(w * Cardinality(Folds(n) \ falla_lineal), w)
             evaluables == {i \in Folds(n) : MinTrain(n) + i >= MinTrainGam}
             exitosos == evaluables \ falla_gam_final
         IN  IF evaluables = {} \/ evaluables \subseteq falla_gam
                \/ exitosos = {}
             THEN [lineal |-> lineal, gam |-> ErrorModelo]
             ELSE [lineal |-> lineal,
                   gam |-> GetMetrics(w * Cardinality(exitosos), w)]

\* build_regression_analysis: cv_num_folds of a model is the
\* num_folds_validos of its cross-validation, 0 when that gave an error
BuildRegressionAnalysis(n, cv, ajuste_lineal_falla, ajuste_gam_falla) ==
    IF n < MinPeriodos
    THEN [error |-> TRUE, lineal |-> SinModelo, gam |-> SinModelo]
    ELSE [error |-> FALSE,
          lineal |-> IF ajuste_lineal_falla THEN ErrorModelo
                     ELSE [error |-> FALSE,
                           num_folds_validos |-> cv.lineal.num_folds_validos,
                           num_folds_total |-> cv.lineal.num_folds_total],
          gam |-> IF cv.gam.error \/ ajuste_gam_falla THEN ErrorModelo
                  ELSE cv.gam]

\* the folds that fail: none, the first, the last or all of them
Patrones(n) ==
    IF NumFolds(n) < 1 THEN {{}}
    ELSE {{}, {0}, {NumFolds(n) - 1}, Folds(n)}

InitTendencia ==
    /\ EstadoCargaInicial /\ reinterpretaciones = {} /\ arm = ArmInicial
    /\ lote = LoteInicial /\ inicio = InicioVacio
    /\ Reposo(TRUE, TRUE, TRUE, TRUE, TRUE, TRUE, TRUE)
    /\ analizado = AnalizadoInicial
    /\ \E n \in 0..MaxPeriodos, al \in BOOLEAN, ag \in BOOLEAN :
       \E fl \in Patrones(n), fg \in Patrones(n), ff \in Patrones(n) :
          tendencia = [TendenciaInicial EXCEPT !.n = n, !.falla_lineal = fl,
                          !.falla_gam = fg, !.falla_gam_final = ff,
                          !.ajuste_lineal_falla = al, !.ajuste_gam_falla = ag]

fijasTendencia == <<varsCarga, reinterpretaciones, arm, lote, inicio, agregado,
                    estratos, condicion, evaluacion, lectura, resolucion,
                    deteccion, analizado>>

\* a call of foward_chaining_expanding_window_cv on the DataFrame
ValidarModelos ==
    /\ ~ tendencia.hecho
    /\ LET cv == CrossValidation(tendencia.n, tendencia.falla_lineal,
                                 tendencia.falla_gam, tendencia.falla_gam_final)
       IN  tendencia' = [tendencia EXCEPT !.operacion = "cv",
                             !.lineal = cv.lineal, !.gam = cv.gam,
                             !.hecho = TRUE]
    /\ UNCHANGED fijasTendencia

\* a call of build_regression_analysis on the DataFrame
AnalizarRegresion ==
    /\ ~ tendencia.hecho
    /\ LET cv == CrossValidation(tendencia.n, tendencia.falla_lineal,
                                 tendencia.falla_gam, tendencia.falla_gam_final)
           r == BuildRegressionAnalysis(tendencia.n, cv,
                                        tendencia.ajuste_lineal_falla,
                                        tendencia.ajuste_gam_falla)
       IN  tendencia' = [tendencia EXCEPT !.operacion = "regresion",
                             !.error = r.error, !.lineal = r.lineal,
                             !.gam = r.gam, !.hecho = TRUE]
    /\ UNCHANGED fijasTendencia

NextTendencia ==
    \/ ValidarModelos
    \/ AnalizarRegresion

SpecTendencia == InitTendencia /\ [][NextTendencia]_vars

\* C22: the cross-validation over n periods gives, for the linear model and
\* for the GAM, metrics over n - min_train - test + 1 folds when
\* n >= min_train + test, and an error for both models otherwise.
C22_FoldsConfigurados ==
    (tendencia.hecho /\ tendencia.operacion = "cv") =>
        IF tendencia.n >= MinTrain(tendencia.n) + VentanaTest(tendencia.n)
        THEN /\ ~ tendencia.lineal.error /\ ~ tendencia.gam.error
             /\ tendencia.lineal.num_folds_total = NumFolds(tendencia.n)
             /\ tendencia.gam.num_folds_total = NumFolds(tendencia.n)
        ELSE tendencia.lineal.error /\ tendencia.gam.error

\* C23: when a trend model cannot be produced (too few periods, no valid
\* fold in its cross-validation, a fit that raises), the analysis ends
\* with an error marker in the result of that model and with a result of
\* the other model, which was attempted all the same.
C23_ModelosIndependientes ==
    (tendencia.hecho /\ tendencia.operacion = "regresion") =>
        /\ tendencia.lineal # SinModelo /\ tendencia.gam # SinModelo
        /\ tendencia.lineal.error <=> tendencia.ajuste_lineal_falla
        /\ tendencia.gam.error <=>
              \/ tendencia.ajuste_gam_falla
              \/ CrossValidation(tendencia.n, tendencia.falla_lineal,
                                 tendencia.falla_gam,
                                 tendencia.falla_gam_final).gam.error

====
